---- MODULE Spec2Model ----
(***************************************************************************)
(* Verification model of the Fabric workspace deployment engine            *)
(* (Deploy/Common): the pipeline dependency sorter, the logical-id         *)
(* rewriter, the pipeline publish / teardown loops and the workspace       *)
(* lifecycle orchestrator.                                                 *)
(*                                                                         *)
(* The module holds several specifications over one set of variables;      *)
(* each specification drives one group of variables and leaves the others  *)
(* at their idle value.                                                    *)
(*   SpecSort     sort_datapipelines applied to every bounded pipeline set *)
(*   SpecRewrite  replace_logical_ids applied to every bounded definition  *)
(*   SpecDeploy   deploy_pipelines / create_data_pipeline against a target *)
(*   SpecTeardown delete_old_items against the listing of a target         *)
(*   SpecOrch     orchestrator: workspace lookup, creation, both passes     *)
(*   SpecArtifacts deploy_artifacts: one pass over the artifact phases      *)
(*   SpecSecurity add_security_group_to_workspace, run twice                *)
(*   SpecPoll     handle_async_creation, poll_environment_publish_status    *)
(*   SpecBatch    the loops over items and their cool-down pauses           *)
(*   SpecNotebook deploy_notebooks: the lakehouse attachment of a notebook  *)
(*   SpecScan     filter_pipelines and the catalog of repository_items_list *)
(***************************************************************************)
EXTENDS Integers, Sequences, FiniteSets, TLC

\* ------------------------------------------------------------------ bounds
\* Number of pipelines known to the catalog (repository or workspace).
MaxPipes == 3
\* Total number of pipeline-invocation activities over all definitions.
MaxRefs == 3
\* Number of catalog entries seen by one rewrite.
MaxEntries == 2
\* Number of tokens of one definition text.
MaxText == 3

VARIABLES
    \* --- sort_datapipelines (SpecSort)
    sort_pc,        \* "idle" | "call" | "done"
    lookup_type,    \* "Repository" | "Deployed"
    pipeline_dict,  \* unsorted_pipeline_dict: Seq of [name, refs] in scan order
    sort_result,    \* [ok, order] | [ok, error]
    \* --- replace_logical_ids (SpecRewrite)
    rw_pc,          \* "idle" | "call" | "done"
    raw_file,       \* the definition text, a sequence of tokens
    rw_catalog,     \* repository_items flattened: Seq of [logical_id, guid]
    rw_result,      \* [ok, text] | [ok, error]
    \* --- deploy_pipelines (SpecDeploy)
    dp_pc,          \* "idle" | "start" | "loop" | "done" | "failed"
    dp_repo,        \* the repository's pipelines: Seq of [name, refs]
    dp_target,      \* display names of the DataPipeline items in the workspace
    dp_order,       \* publish_order
    dp_i,           \* position of the loop in publish_order
    dp_error,       \* the exception deploy_pipelines raised ("" while none)
    dp_posted,      \* names POSTed so far, in request order
    \* --- delete_old_items (SpecTeardown)
    td_pc,          \* "idle" | "environments" | "pipelines" | "done" | "failed"
    td_repo,        \* the repository's pipelines: Seq of [name, refs]
    td_items,       \* the listing passed in: Seq of [type, displayName, id]
    td_refs,        \* invocations between deployed pipelines: <<referrer, referenced>>
    td_remote,      \* ids of the items still in the workspace
    td_order,       \* publish_order_reversed
    td_i,           \* position of the running loop
    td_deleted,     \* ids whose DELETE returned 200, in request order
    td_error,       \* the exception delete_old_items raised ("" while none)
    \* --- orchestrator (SpecOrch)
    o_pc,           \* position of the orchestrator
    ws_exists,      \* a workspace of that name exists in the tenant
    ws_owner,       \* "none" | "preexisting" | "run": who created it
    name_has_conflict_word,  \* the workspace name contains "409" or "conflict"
    stale_notebook, \* the workspace holds a notebook the repository lacks
    workspace_id,   \* None or the id held by the orchestrator
    attempt,        \* loop variable of get_workspace_by_name_with_retry
    lookup_caller,  \* which call of the lookup is running
    is_deployment,  \* "unset" | "full" | "incremental"
    conflict,       \* the creation call answered with a name conflict
    pending,        \* the exception the Provisioning handler holds
    cleanup,        \* "none" | "deleted" | "failed": the compensating delete
    o_error,        \* the exception the orchestrator raised ("" while none)
    calls,          \* remote calls issued so far, with their outcomes
    \* --- deploy_artifacts (SpecArtifacts)
    da_pc,          \* the running phase, or "done" | "failed" | "idle"
    da_is_deployment, \* TRUE: full deployment, FALSE: incremental
    da_repo,        \* [lakehouses, eventhouses, notebooks, pipelines]
    da_items,       \* the fetched listing passed in: set of <<type, name>>
    da_initial,     \* the workspace content when the pass starts
    da_remote,      \* the workspace content: set of <<type, name>>
    da_todo,        \* what the running loop still has to process
    da_ops,         \* item requests issued so far, with their responses
    guids,          \* the ledger
    da_error,       \* the exception deploy_artifacts raised ("" while none)
    da_returned,    \* what deploy_artifacts returned
    \* --- add_security_group_to_workspace (SpecSecurity)
    sg_pc,          \* "idle" | "list" | "requests" | "done" | "failed"
    sg_declared,    \* user_info_list: Seq of [identifier, access]
    sg_initial,     \* the membership before the first run
    sg_members,     \* the membership: identifier -> role or "absent"
    sg_todo,        \* requests the three loops still have to send
    sg_requests,    \* requests sent so far: [run, request, identifier, response]
    sg_run,         \* 1 or 2: which call of the function is running
    sg_listed,      \* number of GET .../users calls issued
    \* --- handle_async_creation, poll_environment_publish_status (SpecPoll)
    pl_pc,          \* "idle" | "polling" | "returned" | "raised"
    pl_fn,          \* the polling function that runs
    polling_interval,   \* parameter of poll_environment_publish_status, seconds
    maximum_duration,   \* parameter of poll_environment_publish_status, seconds
    elapsed_time,   \* local of poll_environment_publish_status, seconds
    pl_early,       \* sleep interval used below the threshold (0: none yet)
    pl_late,        \* sleep interval used from the threshold on (0: none yet)
    pl_tick,        \* parity of the polls handle_async_creation has made
    pl_result,      \* what the function returned or raised ("" while running)
    \* --- the batch loops (SpecBatch)
    bt_pc,          \* "idle" | "loop" | "done" | "raised"
    bt_loop,        \* the batch loop that runs
    bt_n,           \* number of items the loop walks
    bt_i,           \* the loop's counter i
    bt_paused,      \* the pause check of the current iteration is done
    bt_since,       \* item operations issued since the last pause
    \* --- deploy_notebooks / update_notebook_content (SpecNotebook)
    nb_pc,          \* "idle" | "read" | "done"
    target_folder,  \* the layer folder the notebook is deployed from
    lakehouse_dict, \* names of the lakehouses handed to deploy_notebooks
    notebook_content,       \* lakehouse metadata of the notebook file
    new_notebook_content,   \* the same after update_notebook_content
    \* --- filter_pipelines / repository_items_list (SpecScan)
    sc_pc,          \* "idle" | "start" | "filtered" | "done" | "failed"
    sc_disk,        \* directory names beside the requested folder
    sc_items,       \* item directories of a folder, in os.walk order
    sc_folder,      \* the directory filter_pipelines walks, or NoFolder
    pipelines,      \* paths of the content files found
    platforms,      \* paths of the .platform files found
    repository_items,   \* the catalog: entries [name, path, logical_id]
    sc_error        \* message of the exception raised, "" if none

sortVars == <<sort_pc, lookup_type, pipeline_dict, sort_result>>
rwVars == <<rw_pc, raw_file, rw_catalog, rw_result>>
dpVars == <<dp_pc, dp_repo, dp_target, dp_order, dp_i, dp_error, dp_posted>>
tdVars == <<td_pc, td_repo, td_items, td_refs, td_remote, td_order, td_i,
            td_deleted, td_error>>
oVars == <<o_pc, ws_exists, ws_owner, name_has_conflict_word, stale_notebook,
           workspace_id,
           attempt, lookup_caller, is_deployment, conflict, pending, cleanup,
           o_error, calls>>
daVars == <<da_pc, da_is_deployment, da_repo, da_items, da_initial, da_remote,
            da_todo, da_ops, guids, da_error, da_returned>>
sgVars == <<sg_pc, sg_declared, sg_initial, sg_members, sg_todo, sg_requests,
            sg_run, sg_listed>>
plVars == <<pl_pc, pl_fn, polling_interval, maximum_duration, elapsed_time,
            pl_early, pl_late, pl_tick, pl_result>>
btVars == <<bt_pc, bt_loop, bt_n, bt_i, bt_paused, bt_since>>
nbVars == <<nb_pc, target_folder, lakehouse_dict, notebook_content,
            new_notebook_content>>
scVars == <<sc_pc, sc_disk, sc_items, sc_folder, pipelines, platforms,
            repository_items, sc_error>>
moreVars == <<nbVars, scVars>>
auxVars == <<sgVars, plVars, btVars, moreVars>>
vars == <<sortVars, rwVars, dpVars, tdVars, oVars, daVars, auxVars>>

\* ----------------------------------------------------------------- helpers
Range(s) == {s[i] : i \in 1..Len(s)}

RECURSIVE Reverse(_)
Reverse(s) == IF s = <<>> THEN <<>> ELSE Append(Reverse(Tail(s)), Head(s))

RECURSIVE SeqsUpTo(_, _)
\* All sequences over S of length at most n.
SeqsUpTo(S, n) ==
    IF n = 0 THEN {<<>>}
    ELSE LET shorter == SeqsUpTo(S, n - 1)
         IN  shorter \cup {Append(s, x) : s \in {t \in shorter : Len(t) = n - 1}, x \in S}

\* Position of x in s (0 when absent).
IndexOf(s, x) ==
    IF x \in Range(s) THEN CHOOSE i \in 1..Len(s) : s[i] = x /\ \A j \in 1..(i - 1) : s[j] # x
    ELSE 0

\* ------------------------------------------------------------ the catalog
Pipes == 1..MaxPipes
NoName == 0          \* Python None returned by convert_id_to_name

\* Design-time logical id and runtime id of pipeline p; id 0 belongs to no item.
LogicalId(p) == <<"logical", p>>
Guid(p) == <<"guid", p>>

\* repository_items_list()[item_type]: the pipelines of the repository, scan order.
RepositoryCatalog == [p \in Pipes |-> [name |-> p, logical_id |-> LogicalId(p)]]
\* deployed_items_list()[item_type]: the pipelines of the workspace.
DeployedCatalog == [p \in Pipes |-> [name |-> p, guid |-> Guid(p)]]

IsDeployedLookup(lt) == lt = "Deployed"

\* Mutation of ConvertIdToName: an id no entry carries resolves to the first
\* entry of the catalog.
ConvertIdToNameFirstEntry(generic_id, lt) ==
    LET cat == IF lt = "Repository" THEN RepositoryCatalog ELSE DeployedCatalog
        key(e) == IF lt = "Repository" THEN e.logical_id ELSE e.guid
        hits == {i \in 1..Len(cat) : key(cat[i]) = generic_id}
    IN  IF hits = {} THEN cat[1].name
        ELSE cat[CHOOSE i \in hits : \A j \in hits : i <= j].name

\* convert_id_to_name: the first catalog entry whose key equals the id.
ConvertIdToName(generic_id, lt) ==
    LET cat == IF lt = "Repository" THEN RepositoryCatalog ELSE DeployedCatalog
        key(e) == IF lt = "Repository" THEN e.logical_id ELSE e.guid
        hits == {i \in 1..Len(cat) : key(cat[i]) = generic_id}
    IN  IF hits = {} THEN NoName
        ELSE cat[CHOOSE i \in hits : \A j \in hits : i <= j].name

RECURSIVE FindReferencedDatapipelines(_, _)
\* find_referenced_datapipelines: refs are the ids carried by the invocation
\* activities of one definition in walk order; unresolved ids are dropped.
FindReferencedDatapipelines(refs, lt) ==
    IF refs = <<>> THEN <<>>
    ELSE LET n == ConvertIdToName(Head(refs), lt)
             rest == FindReferencedDatapipelines(Tail(refs), lt)
         IN  IF n = NoName THEN rest ELSE <<n>> \o rest

\* ------------------------------------------------------ sort_datapipelines
\* defaultdict state: graph / in_degree with the insertion order of their keys.
EmptyGraph ==
    [graph |-> [p \in Pipes |-> <<>>], gkeys |-> <<>>,
     in_degree |-> [p \in Pipes |-> 0], ikeys |-> <<>>]

Touch(keys, k) == IF k \in Range(keys) THEN keys ELSE Append(keys, k)

RECURSIVE AddEdgesSwapped(_, _, _)
\* Mutation of AddEdges: the edge is stored referrer -> referenced.
AddEdgesSwapped(referenced, item, g) ==
    IF referenced = <<>> THEN g
    ELSE AddEdgesSwapped(Tail(referenced), item,
            [graph |-> [g.graph EXCEPT ![item] = Append(@, Head(referenced))],
             gkeys |-> Touch(g.gkeys, item),
             in_degree |-> [g.in_degree EXCEPT ![Head(referenced)] = @ + 1],
             ikeys |-> Touch(g.ikeys, Head(referenced))])

RECURSIVE AddEdges(_, _, _)
\* lines 1259-1261: graph[referenced].append(item); in_degree[item] += 1
AddEdges(referenced, item, g) ==
    IF referenced = <<>> THEN g
    ELSE AddEdges(Tail(referenced), item,
            [graph |-> [g.graph EXCEPT ![Head(referenced)] = Append(@, item)],
             gkeys |-> Touch(g.gkeys, Head(referenced)),
             in_degree |-> [g.in_degree EXCEPT ![item] = @ + 1],
             ikeys |-> Touch(g.ikeys, item)])

RECURSIVE BuildGraphEdgesOnly(_, _, _)
\* Mutation of BuildGraph: a pipeline gets an in-degree entry only through
\* an edge.
BuildGraphEdgesOnly(dict, lt, g) ==
    IF dict = <<>> THEN g
    ELSE LET item == Head(dict)
             g1 == AddEdges(FindReferencedDatapipelines(item.refs, lt), item.name, g)
         IN  BuildGraphEdgesOnly(Tail(dict), lt, g1)

RECURSIVE BuildGraph(_, _, _)
\* lines 1243-1268: one pass over unsorted_pipeline_dict.
BuildGraph(dict, lt, g) ==
    IF dict = <<>> THEN g
    ELSE LET item == Head(dict)
             g1 == AddEdges(FindReferencedDatapipelines(item.refs, lt), item.name, g)
             g2 == [g1 EXCEPT !.ikeys = Touch(@, item.name)]
         IN  BuildGraph(Tail(dict), lt, g2)

RECURSIVE BackFillNeighbors(_, _)
BackFillNeighbors(neighbors, g) ==
    IF neighbors = <<>> THEN g
    ELSE LET n == Head(neighbors)
         IN  BackFillNeighbors(Tail(neighbors),
                IF n \in Range(g.ikeys) THEN g
                ELSE [g EXCEPT !.in_degree[n] = @ + 1, !.ikeys = Append(@, n)])

RECURSIVE BackFillFrom(_, _)
\* lines 1271-1278: nodes seen only as edge targets get an in-degree entry.
BackFillFrom(keys, g) ==
    IF keys = <<>> THEN g
    ELSE LET k == Head(keys)
             g1 == [g EXCEPT !.ikeys = Touch(@, k)]
         IN  BackFillFrom(Tail(keys), BackFillNeighbors(g1.graph[k], g1))

BackFill(g) == BackFillFrom(g.gkeys, g)

RECURSIVE Relax(_, _, _)
\* lines 1290-1293: decrement each neighbour, enqueue it when it reaches zero.
Relax(neighbors, in_degree, queue) ==
    IF neighbors = <<>> THEN [in_degree |-> in_degree, queue |-> queue]
    ELSE LET n == Head(neighbors)
             d == [in_degree EXCEPT ![n] = @ - 1]
         IN  Relax(Tail(neighbors), d, IF d[n] = 0 THEN Append(queue, n) ELSE queue)

RECURSIVE KahnLoop(_, _, _, _)
\* lines 1286-1293: FIFO ready queue.
KahnLoop(queue, in_degree, sorted_items, graph) ==
    IF queue = <<>> THEN sorted_items
    ELSE LET item_name == Head(queue)
             r == Relax(graph[item_name], in_degree, Tail(queue))
         IN  KahnLoop(r.queue, r.in_degree, Append(sorted_items, item_name), graph)

\* Mutation of CycleDetected: the emitted count is never compared.
CycleDetectedNever(sorted_items, g) == FALSE

\* line 1295: fewer nodes emitted than exist.
CycleDetected(sorted_items, g) == Len(sorted_items) # Len(g.ikeys)

DictNames(dict) == [i \in 1..Len(dict) |-> dict[i].name]

\* Mutation of DeployedOrder: the filtered order is not inverted.
DeployedOrderNotInverted(sorted_items, unpublish_items) ==
    SelectSeq(sorted_items, LAMBDA n : n \in Range(unpublish_items))

\* lines 1298-1301: keep the unpublish items and invert the order.
DeployedOrder(sorted_items, unpublish_items) ==
    Reverse(SelectSeq(sorted_items, LAMBDA n : n \in Range(unpublish_items)))

CycleError == "There is a cycle in the graph. Cannot determine a valid publish order."

SortDatapipelines(dict, lt) ==
    LET g0 == BuildGraph(dict, lt, EmptyGraph)
        g == IF IsDeployedLookup(lt) THEN BackFill(g0) ELSE g0
        queue == SelectSeq(g.ikeys, LAMBDA n : g.in_degree[n] = 0)
        sorted_items == KahnLoop(queue, g.in_degree, <<>>, g.graph)
    IN  IF CycleDetected(sorted_items, g)
        THEN [ok |-> FALSE, error |-> CycleError]
        ELSE [ok |-> TRUE,
              order |-> IF IsDeployedLookup(lt)
                        THEN DeployedOrder(sorted_items, DictNames(dict))
                        ELSE sorted_items]

\* ------------------------------------------------------- SpecSort: inputs
UnresolvedId == <<"logical", 0>>
RefIds(lt) ==
    {UnresolvedId} \cup {IF lt = "Repository" THEN LogicalId(p) ELSE Guid(p) : p \in Pipes}

RECURSIVE Definitions(_, _, _)
\* Every assignment of reference lists to pipelines 1..k that spends at most
\* `budget` invocation activities in total.
Definitions(k, budget, lt) ==
    IF k = 0 THEN {<<>>}
    ELSE UNION { { Append(d, [name |-> k, refs |-> r]) :
                     d \in Definitions(k - 1, budget - Len(r), lt) } :
                 r \in SeqsUpTo(RefIds(lt), budget) }

NoResult == [ok |-> FALSE, error |-> "none"]

SortIdle ==
    /\ sort_pc = "idle" /\ lookup_type = "Repository"
    /\ pipeline_dict = <<>> /\ sort_result = NoResult

RewriteIdle ==
    /\ rw_pc = "idle" /\ raw_file = <<>>
    /\ rw_catalog = <<>> /\ rw_result = NoResult

DeployIdle ==
    /\ dp_pc = "idle" /\ dp_repo = <<>> /\ dp_target = {}
    /\ dp_order = <<>> /\ dp_i = 0 /\ dp_error = "" /\ dp_posted = <<>>

TeardownIdle ==
    /\ td_pc = "idle" /\ td_repo = <<>> /\ td_items = <<>> /\ td_refs = {}
    /\ td_remote = {} /\ td_order = <<>> /\ td_i = 0 /\ td_deleted = <<>>
    /\ td_error = ""

None == "None"

\* deploy_artifacts has not returned.
NotReturned == "NotReturned"

ArtifactsIdle ==
    /\ da_pc = "idle" /\ da_is_deployment = FALSE
    /\ da_repo = [lakehouses |-> {}, eventhouses |-> {}, notebooks |-> {},
                  renamed |-> 0, pipelines |-> <<>>]
    /\ da_items = {} /\ da_initial = {} /\ da_remote = {} /\ da_todo = <<>>
    /\ da_ops = <<>> /\ guids = <<>> /\ da_error = "" /\ da_returned = NotReturned

SecurityIdle ==
    /\ sg_pc = "idle" /\ sg_declared = <<>> /\ sg_initial = <<>>
    /\ sg_members = <<>> /\ sg_todo = <<>> /\ sg_requests = <<>> /\ sg_run = 0
    /\ sg_listed = 0

PollIdle ==
    /\ pl_pc = "idle" /\ pl_fn = "none" /\ polling_interval = 0
    /\ maximum_duration = 0 /\ elapsed_time = 0 /\ pl_early = 0 /\ pl_late = 0
    /\ pl_tick = 0 /\ pl_result = ""

BatchIdle ==
    /\ bt_pc = "idle" /\ bt_loop = "none" /\ bt_n = 0 /\ bt_i = 0
    /\ bt_paused = FALSE /\ bt_since = 0

NoFolder == "no folder"

NotebookIdle ==
    /\ nb_pc = "idle" /\ target_folder = "" /\ lakehouse_dict = {}
    /\ notebook_content = <<>> /\ new_notebook_content = <<>>

ScanIdle ==
    /\ sc_pc = "idle" /\ sc_disk = {} /\ sc_items = <<>> /\ sc_folder = NoFolder
    /\ pipelines = <<>> /\ platforms = <<>> /\ repository_items = <<>>
    /\ sc_error = ""

MoreIdle == NotebookIdle /\ ScanIdle

AuxIdle == SecurityIdle /\ PollIdle /\ BatchIdle /\ MoreIdle

OrchIdle ==
    /\ o_pc = "idle" /\ ws_exists = FALSE /\ ws_owner = "none"
    /\ name_has_conflict_word = FALSE /\ stale_notebook = FALSE
    /\ workspace_id = None /\ attempt = 0
    /\ lookup_caller = "none" /\ is_deployment = "unset" /\ conflict = FALSE
    /\ pending = "" /\ cleanup = "none" /\ o_error = "" /\ calls = <<>>

SortInit ==
    /\ RewriteIdle /\ DeployIdle /\ TeardownIdle /\ OrchIdle /\ ArtifactsIdle /\ AuxIdle
    /\ sort_pc = "call"
    /\ lookup_type \in {"Repository", "Deployed"}
    /\ \E k \in 0..MaxPipes :
         /\ lookup_type = "Repository" => k = MaxPipes
         /\ pipeline_dict \in Definitions(k, MaxRefs, lookup_type)
    /\ sort_result = NoResult

SortCall ==
    /\ sort_pc = "call"
    /\ sort_result' = SortDatapipelines(pipeline_dict, lookup_type)
    /\ sort_pc' = "done"
    /\ UNCHANGED <<lookup_type, pipeline_dict, rwVars, dpVars, tdVars, oVars, daVars, auxVars>>

SortNext == SortCall
SpecSort == SortInit /\ [][SortNext]_vars

\* ------------------------------------------------- SpecSort: properties
\* The id under which pipeline p is referenced in the given lookup mode.
CatalogId(p, lt) == IF lt = "Repository" THEN LogicalId(p) ELSE Guid(p)

\* Dependency edges referenced -> referrer of the pipelines given to the sorter.
DepEdges(dict, lt) ==
    {e \in Pipes \X Pipes :
        \E i \in 1..Len(dict) :
           dict[i].name = e[2] /\ CatalogId(e[1], lt) \in Range(dict[i].refs)}

RECURSIVE PathClosure(_, _)
PathClosure(E, n) ==
    IF n = 0 THEN E
    ELSE LET C == PathClosure(E, n - 1)
         IN  C \cup {e \in Pipes \X Pipes :
                        \E b \in Pipes : <<e[1], b>> \in C /\ <<b, e[2]>> \in C}

HasCycle(dict, lt) ==
    \E p \in Pipes : <<p, p>> \in PathClosure(DepEdges(dict, lt), MaxPipes)

Precedes(order, a, b) ==
    /\ IndexOf(order, a) > 0
    /\ IndexOf(order, b) > 0
    /\ IndexOf(order, a) < IndexOf(order, b)

\* C1: for every acyclic reference graph given to sort_datapipelines in
\* Repository mode an order is returned, and it places the referenced
\* pipeline before the referring pipeline for every edge.
C1_ReferencedBeforeReferrer ==
    (sort_pc = "done" /\ lookup_type = "Repository"
        /\ ~HasCycle(pipeline_dict, lookup_type))
    => /\ sort_result.ok
       /\ \A e \in DepEdges(pipeline_dict, lookup_type) :
             Precedes(sort_result.order, e[1], e[2])

\* A chain 3 -> 2 -> 1 against the scan order has been sorted.
C1_Witness ==
    /\ sort_pc = "done" /\ lookup_type = "Repository"
    /\ ~HasCycle(pipeline_dict, lookup_type)
    /\ {<<3, 2>>, <<2, 1>>} \subseteq DepEdges(pipeline_dict, lookup_type)
    /\ sort_result.ok /\ sort_result.order = <<3, 2, 1>>

\* C2: whenever the reference graph contains a cycle (mutual, longer, or a
\* self reference), sort_datapipelines raises the cycle error and returns
\* no order, in Repository and in Deployed mode.
C2_CycleRaises ==
    (sort_pc = "done" /\ HasCycle(pipeline_dict, lookup_type))
    => /\ ~sort_result.ok
       /\ sort_result.error = CycleError

\* Deployed mode, 1 references 2 and 2 references 1: the sort has raised.
C2_Witness ==
    /\ sort_pc = "done" /\ lookup_type = "Deployed"
    /\ {<<1, 2>>, <<2, 1>>} \subseteq DepEdges(pipeline_dict, lookup_type)
    /\ ~sort_result.ok

\* The publish-side view of a teardown input: the same pipelines with their
\* references written as logical ids, followed by the referenced pipelines
\* that were not passed in (in order of first reference, without content).
AsRepositoryRefs(refs) ==
    [i \in 1..Len(refs) |->
        IF \E p \in Pipes : refs[i] = Guid(p)
        THEN LogicalId(CHOOSE p \in Pipes : refs[i] = Guid(p))
        ELSE UnresolvedId]

RECURSIVE FirstReferenced(_, _)
FirstReferenced(dict, seen) ==
    IF dict = <<>> THEN seen
    ELSE LET names == FindReferencedDatapipelines(Head(dict).refs, "Deployed")
             add[i \in 0..Len(names)] ==
                 IF i = 0 THEN seen ELSE Touch(add[i - 1], names[i])
         IN  FirstReferenced(Tail(dict), add[Len(names)])

PublishView(dict) ==
    LET own == [i \in 1..Len(dict) |->
                   [name |-> dict[i].name, refs |-> AsRepositoryRefs(dict[i].refs)]]
        outside == SelectSeq(FirstReferenced(dict, <<>>),
                             LAMBDA n : n \notin Range(DictNames(dict)))
    IN  own \o [i \in 1..Len(outside) |-> [name |-> outside[i], refs |-> <<>>]]

PublishOrderOf(dict) == SortDatapipelines(PublishView(dict), "Repository")

Restrict(order, names) == SelectSeq(order, LAMBDA n : n \in names)

EmptyStr == <<>>                    \* "" : the guid of an item not yet deployed
ZeroGuid == <<"guid", 0>>           \* "00000000-0000-0000-0000-000000000000"
WorkspaceId == <<"workspace", 1>>
OtherText == <<"text", 0>>

StrContains(text, sub) == \E i \in 1..Len(text) : text[i] = sub

\* Mutation of StrReplace: only the first occurrence is replaced.
StrReplaceFirst(text, old, new) ==
    [i \in 1..Len(text) |->
        IF text[i] = old /\ \A j \in 1..(i - 1) : text[j] # old THEN new ELSE text[i]]

\* str.replace(old, new): every occurrence.
StrReplace(text, old, new) ==
    [i \in 1..Len(text) |-> IF text[i] = old THEN new ELSE text[i]]

StrCount(text, sub) == Cardinality({i \in 1..Len(text) : text[i] = sub})

NotYetDeployed == "is not yet deployed."

RECURSIVE ReplaceEntriesLenient(_, _)
\* Mutation of ReplaceEntries: an entry without a guid is passed over.
ReplaceEntriesLenient(text, entries) ==
    IF entries = <<>> THEN [ok |-> TRUE, text |-> text]
    ELSE LET logical_id == Head(entries).logical_id
             item_guid == Head(entries).guid
         IN  IF logical_id # EmptyStr /\ StrContains(text, logical_id)
                  /\ item_guid # EmptyStr
             THEN ReplaceEntriesLenient(StrReplace(text, logical_id, item_guid),
                                        Tail(entries))
             ELSE ReplaceEntriesLenient(text, Tail(entries))

RECURSIVE ReplaceEntries(_, _)
\* lines 690-700: one pass over the catalog entries in catalog order.
ReplaceEntries(text, entries) ==
    IF entries = <<>> THEN [ok |-> TRUE, text |-> text]
    ELSE LET logical_id == Head(entries).logical_id
             item_guid == Head(entries).guid
         IN  IF logical_id # EmptyStr /\ StrContains(text, logical_id)
             THEN IF item_guid = EmptyStr
                  THEN [ok |-> FALSE, error |-> NotYetDeployed, logical_id |-> logical_id]
                  ELSE ReplaceEntries(StrReplace(text, logical_id, item_guid), Tail(entries))
             ELSE ReplaceEntries(text, Tail(entries))

\* lines 685-709
ReplaceLogicalIds(text, entries, ws_id) ==
    LET r == ReplaceEntries(text, entries)
    IN  IF r.ok THEN [ok |-> TRUE, text |-> StrReplace(r.text, ZeroGuid, ws_id)]
        ELSE r

\* ----------------------------------------------------- SpecRewrite: inputs
\* Catalog entry k carries its own logical id or, when its descriptor was
\* copied from an earlier item, that item's logical id; its guid is the
\* runtime id the remote store assigned to it, or "" while it is not deployed.
CatalogEntries(k) ==
    [logical_id : {LogicalId(q) : q \in 1..k}, guid : {Guid(k), EmptyStr}]

RECURSIVE Catalogs(_)
Catalogs(n) ==
    IF n = 0 THEN {<<>>}
    ELSE {Append(c, e) : c \in Catalogs(n - 1), e \in CatalogEntries(n)}

TextTokens ==
    {LogicalId(q) : q \in 1..MaxEntries} \cup {Guid(q) : q \in 1..MaxEntries}
      \cup {ZeroGuid, OtherText}

RewriteInit ==
    /\ SortIdle /\ DeployIdle /\ TeardownIdle /\ OrchIdle /\ ArtifactsIdle /\ AuxIdle
    /\ rw_pc = "call"
    /\ raw_file \in SeqsUpTo(TextTokens, MaxText)
    /\ \E n \in 1..MaxEntries : rw_catalog \in Catalogs(n)
    /\ rw_result = NoResult

RewriteCall ==
    /\ rw_pc = "call"
    /\ rw_result' = ReplaceLogicalIds(raw_file, rw_catalog, WorkspaceId)
    /\ rw_pc' = "done"
    /\ UNCHANGED <<raw_file, rw_catalog, sortVars, dpVars, tdVars, oVars, daVars, auxVars>>

\* create_data_pipeline, lines 1157-1201: the rewritten text goes into the
\* payload and the POST is issued; an exception of the rewrite leaves
\* create_data_pipeline before that.
UploadDefinition ==
    /\ rw_pc = "done" /\ rw_result.ok
    /\ rw_pc' = "posted"
    /\ UNCHANGED <<raw_file, rw_catalog, rw_result, sortVars, dpVars, tdVars, oVars, daVars, auxVars>>

RewriteNext == RewriteCall \/ UploadDefinition
SpecRewrite == RewriteInit /\ [][RewriteNext]_vars

\* ------------------------------------------------- SpecRewrite: properties
\* C10 as stated: for every text and every catalog entry with logical id L
\* and a known resolved id, N occurrences of L in the text give zero
\* occurrences of L and exactly N occurrences of the resolved id.
C10_Original ==
    (rw_pc = "done" /\ rw_result.ok)
    => \A j \in 1..Len(rw_catalog) :
          (rw_catalog[j].guid # EmptyStr
             /\ StrContains(raw_file, rw_catalog[j].logical_id))
          => /\ StrCount(rw_result.text, rw_catalog[j].logical_id) = 0
             /\ StrCount(rw_result.text, rw_catalog[j].guid)
                   = StrCount(raw_file, rw_catalog[j].logical_id)

\* Entry j is the only catalog entry that carries its logical id or its
\* resolved id, in either role.
OwnIds(cat, j) ==
    /\ cat[j].logical_id # cat[j].guid
    /\ \A k \in 1..Len(cat) :
          k # j => {cat[k].logical_id, cat[k].guid}
                     \cap {cat[j].logical_id, cat[j].guid} = {}

\* C10 (amended): when the entry's logical id L and resolved id G belong to
\* that entry alone, the output holds zero occurrences of L and exactly N
\* more occurrences of G than the input text held.
C10_ExactRewrite ==
    (rw_pc = "done" /\ rw_result.ok)
    => \A j \in 1..Len(rw_catalog) :
          (rw_catalog[j].guid # EmptyStr /\ OwnIds(rw_catalog, j))
          => /\ StrCount(rw_result.text, rw_catalog[j].logical_id) = 0
             /\ StrCount(rw_result.text, rw_catalog[j].guid)
                   = StrCount(raw_file, rw_catalog[j].logical_id)
                     + StrCount(raw_file, rw_catalog[j].guid)

\* Two occurrences of the first entry's logical id have been rewritten next
\* to an occurrence of the second entry's.
C10_Witness ==
    /\ rw_pc = "done" /\ rw_result.ok
    /\ Len(rw_catalog) = 2 /\ OwnIds(rw_catalog, 1)
    /\ rw_catalog[1].guid # EmptyStr
    /\ StrCount(raw_file, rw_catalog[1].logical_id) = 2
    /\ StrCount(raw_file, rw_catalog[2].logical_id) = 1
    /\ StrCount(rw_result.text, rw_catalog[1].guid) = 2

RepositoryItems(repo, target) ==
    [i \in 1..Len(repo) |->
        [logical_id |-> LogicalId(repo[i].name),
         guid |-> IF repo[i].name \in target THEN Guid(repo[i].name) ELSE EmptyStr]]

\* The content file of a pipeline as tokens: the ids its invocation
\* activities carry, each followed by other text.
DefinitionText(refs) ==
    [i \in 1..(2 * Len(refs)) |-> IF i % 2 = 1 THEN refs[(i + 1) \div 2] ELSE OtherText]

RefsOf(repo, name) == repo[CHOOSE i \in 1..Len(repo) : repo[i].name = name].refs

\* Mutation of PublishOrder: the pipelines are published in scan order.
PublishOrderUnsorted(repo) == [ok |-> TRUE, order |-> DictNames(repo)]

\* lines 1603-1607
PublishOrder(repo) == SortDatapipelines(repo, "Repository")

\* Responses of POST /items: 201, 202 followed by a succeeded operation, or
\* any other outcome.  A display name already in use is refused.
PostResponses(name, target) ==
    IF name \in target THEN {"failed"} ELSE {"created", "accepted", "failed"}

DeployInit ==
    /\ SortIdle /\ RewriteIdle /\ TeardownIdle /\ OrchIdle /\ ArtifactsIdle /\ AuxIdle
    /\ dp_pc = "start"
    /\ dp_repo \in Definitions(MaxPipes, MaxRefs, "Repository")
    /\ dp_target \in SUBSET Pipes
    /\ dp_order = <<>> /\ dp_i = 0 /\ dp_error = "" /\ dp_posted = <<>>

\* lines 1603-1607: build the dictionary and sort it.
DeployPipelinesSort ==
    /\ dp_pc = "start"
    /\ LET r == PublishOrder(dp_repo)
       IN  IF r.ok
           THEN /\ dp_order' = r.order /\ dp_i' = 1 /\ dp_pc' = "loop"
                /\ dp_error' = dp_error
           ELSE /\ dp_error' = r.error /\ dp_pc' = "failed"
                /\ UNCHANGED <<dp_order, dp_i>>
    /\ UNCHANGED <<dp_repo, dp_target, dp_posted, sortVars, rwVars, tdVars, oVars, daVars, auxVars>>

\* lines 1121-1217: rewrite every file of the next pipeline, POST it, and act
\* on the response; any failure leaves deploy_pipelines with the exception.
CreateDataPipeline ==
    /\ dp_pc = "loop" /\ dp_i <= Len(dp_order)
    /\ LET item_name == dp_order[dp_i]
           r == ReplaceLogicalIds(DefinitionText(RefsOf(dp_repo, item_name)),
                                  RepositoryItems(dp_repo, dp_target), WorkspaceId)
       IN  IF ~r.ok
           THEN /\ dp_error' = r.error /\ dp_pc' = "failed"
                /\ UNCHANGED <<dp_target, dp_i, dp_posted>>
           ELSE /\ dp_posted' = Append(dp_posted, item_name)
                /\ \E resp \in PostResponses(item_name, dp_target) :
                      IF resp = "failed"
                      THEN /\ dp_error' = "Failed to create pipeline"
                           /\ dp_pc' = "failed"
                           /\ UNCHANGED <<dp_target, dp_i>>
                      ELSE /\ dp_target' = dp_target \cup {item_name}
                           /\ dp_i' = dp_i + 1
                           /\ UNCHANGED <<dp_pc, dp_error>>
    /\ UNCHANGED <<dp_repo, dp_order, sortVars, rwVars, tdVars, oVars, daVars, auxVars>>

\* line 1609: the loop is exhausted.
DeployPipelinesReturn ==
    /\ dp_pc = "loop" /\ dp_i > Len(dp_order)
    /\ dp_pc' = "done"
    /\ UNCHANGED <<dp_repo, dp_target, dp_order, dp_i, dp_error, dp_posted, sortVars, rwVars, tdVars, oVars, daVars, auxVars>>

DeployNext ==
    \/ DeployPipelinesSort
    \/ CreateDataPipeline
    \/ DeployPipelinesReturn
SpecDeploy == DeployInit /\ [][DeployNext]_vars

\* -------------------------------------------------- SpecDeploy: properties
\* Pipelines the definition of `name` references through an invocation
\* activity.
InvokedBy(repo, name) ==
    {q \in Pipes : LogicalId(q) \in Range(RefsOf(repo, name))}

\* C3: while deploy_pipelines runs, at the moment a pipeline's definition is
\* rewritten every pipeline it references through an invocation activity
\* already exists in the target, and the run never fails with a
\* not-yet-deployed error.  (A cyclic repository never enters the loop.)
C3_ReferencedDeployedFirst ==
    /\ (dp_pc = "loop" /\ dp_i <= Len(dp_order))
          => InvokedBy(dp_repo, dp_order[dp_i]) \subseteq dp_target
    /\ dp_error # NotYetDeployed

\* The loop is about to rewrite pipeline 1, which invokes pipeline 2, which
\* invokes pipeline 3; both were created by this run.
C3_Witness ==
    /\ dp_pc = "loop" /\ dp_i = 3 /\ dp_order = <<3, 2, 1>>
    /\ InvokedBy(dp_repo, 1) = {2} /\ InvokedBy(dp_repo, 2) = {3}
    /\ dp_posted = <<3, 2>> /\ dp_target = {2, 3}

\* -------------------------------------------------------- delete_old_items
\* A display name no repository pipeline carries.
StaleName == MaxPipes + 1
TargetNames == Pipes \cup {StaleName}

ItemId(type, name) == IF type = "DataPipeline" THEN Guid(name) ELSE <<type, name>>
Item(type, name) == [type |-> type, displayName |-> name, id |-> ItemId(type, name)]

\* Mutation of IsEnvironment: no item is taken for an environment.
IsEnvironmentNever(item) == FALSE

\* line 163: item.get("type").lower() in ["environment"]
IsEnvironment(item) == item.type = "Environment"
\* Mutation of IsDataPipeline: the type of the matching item is not tested.
IsDataPipelineAny(item) == TRUE

\* line 193: matching_item.get("type").lower() == "datapipeline"
IsDataPipeline(item) == item.type = "DataPipeline"

NoItem == [type |-> "None", displayName |-> NoName, id |-> EmptyStr]

\* line 181 and 190: {item["displayName"]: item for item in items}.get(name);
\* the last item listed under a display name is the one kept.
ItemsMapGet(items, name) ==
    LET hits == {i \in 1..Len(items) : items[i].displayName = name}
    IN  IF hits = {} THEN NoItem
        ELSE items[CHOOSE i \in hits : \A j \in hits : j <= i]

\* Repositories of the teardown runs: every name of Pipes is a pipeline and at
\* most one of them carries an invocation activity.
TeardownRepos ==
    {[i \in Pipes |-> [name |-> i, refs |-> IF i = a THEN <<id>> ELSE <<>>]] :
        a \in Pipes \cup {NoName}, id \in RefIds("Repository")}

\* The pipelines of `names` in ascending order of display name.
RECURSIVE PipelineItems(_, _)
PipelineItems(names, n) ==
    IF n > StaleName THEN <<>>
    ELSE (IF n \in names THEN <<Item("DataPipeline", n)>> ELSE <<>>)
         \o PipelineItems(names, n + 1)

\* Listings of the target: its pipelines, and possibly one item of another
\* kind listed before or after them.
OtherKinds == {"Notebook", "Environment", "Lakehouse", "Eventhouse"}
Listings ==
    {PipelineItems(names, 1) : names \in SUBSET TargetNames}
    \cup {<<Item(t, n)>> \o PipelineItems(names, 1) :
            names \in SUBSET TargetNames, t \in OtherKinds, n \in TargetNames}
    \cup {PipelineItems(names, 1) \o <<Item(t, n)>> :
            names \in SUBSET TargetNames, t \in OtherKinds, n \in TargetNames}

ListedPipelines(items) ==
    {items[i].displayName : i \in {j \in 1..Len(items) : IsDataPipeline(items[j])}}

\* Responses of DELETE /items/{id}.
DeleteResponses == {200, 404}

TeardownInit ==
    /\ SortIdle /\ RewriteIdle /\ DeployIdle /\ OrchIdle /\ ArtifactsIdle /\ AuxIdle
    /\ td_pc = "environments"
    /\ td_repo \in TeardownRepos
    /\ td_items \in Listings
    /\ td_refs \in {{}} \cup {{x} : x \in {y \in ListedPipelines(td_items)
                                                   \X ListedPipelines(td_items) :
                                              y[1] # y[2]}}
    /\ td_remote = {td_items[i].id : i \in 1..Len(td_items)}
    /\ td_order = <<>> /\ td_i = 1 /\ td_deleted = <<>> /\ td_error = ""

\* lines 157-169: one iteration of the first loop.
DeleteEnvironment ==
    /\ td_pc = "environments" /\ td_i <= Len(td_items)
    /\ LET item == td_items[td_i]
       IN  IF IsEnvironment(item)
           THEN \E status \in DeleteResponses :
                  IF status # 200
                  THEN /\ td_error' = "An error occurred while deleting item"
                       /\ td_pc' = "failed"
                       /\ UNCHANGED <<td_remote, td_deleted, td_i>>
                  ELSE /\ td_remote' = td_remote \ {item.id}
                       /\ td_deleted' = Append(td_deleted, item.id)
                       /\ td_i' = td_i + 1
                       /\ UNCHANGED <<td_pc, td_error>>
           ELSE /\ td_i' = td_i + 1
                /\ UNCHANGED <<td_pc, td_error, td_remote, td_deleted>>
    /\ UNCHANGED <<td_repo, td_items, td_refs, td_order, sortVars, rwVars, dpVars, oVars, daVars, auxVars>>

\* lines 171-181: sort the repository's pipelines and reverse the order.
ReversePublishOrder ==
    /\ td_pc = "environments" /\ td_i > Len(td_items)
    /\ LET r == SortDatapipelines(td_repo, "Repository")
       IN  IF r.ok
           THEN /\ td_order' = Reverse(r.order) /\ td_i' = 1
                /\ td_pc' = "pipelines" /\ td_error' = td_error
           ELSE /\ td_error' = r.error /\ td_pc' = "failed"
                /\ UNCHANGED <<td_order, td_i>>
    /\ UNCHANGED <<td_repo, td_items, td_refs, td_remote, td_deleted,
                   sortVars, rwVars, dpVars, oVars, daVars, auxVars>>

\* lines 184-199: one iteration of the second loop.
DeletePipeline ==
    /\ td_pc = "pipelines" /\ td_i <= Len(td_order)
    /\ LET matching_item == ItemsMapGet(td_items, td_order[td_i])
       IN  IF matching_item # NoItem /\ IsDataPipeline(matching_item)
           THEN \E status \in DeleteResponses :
                  IF status # 200
                  THEN /\ td_error' = "An error occurred while deleting item"
                       /\ td_pc' = "failed"
                       /\ UNCHANGED <<td_remote, td_deleted, td_i>>
                  ELSE /\ td_remote' = td_remote \ {matching_item.id}
                       /\ td_deleted' = Append(td_deleted, matching_item.id)
                       /\ td_i' = td_i + 1
                       /\ UNCHANGED <<td_pc, td_error>>
           ELSE /\ td_i' = td_i + 1
                /\ UNCHANGED <<td_pc, td_error, td_remote, td_deleted>>
    /\ UNCHANGED <<td_repo, td_items, td_refs, td_order, sortVars, rwVars, dpVars, oVars, daVars, auxVars>>

\* line 201: return True
DeleteOldItemsReturn ==
    /\ td_pc = "pipelines" /\ td_i > Len(td_order)
    /\ td_pc' = "done"
    /\ UNCHANGED <<td_repo, td_items, td_refs, td_remote, td_order, td_i,
                   td_deleted, td_error, sortVars, rwVars, dpVars, oVars, daVars, auxVars>>

TeardownNext ==
    \/ DeleteEnvironment
    \/ ReversePublishOrder
    \/ DeletePipeline
    \/ DeleteOldItemsReturn
SpecTeardown == TeardownInit /\ [][TeardownNext]_vars

\* ------------------------------------------------ SpecTeardown: properties
DeletedPipelines ==
    {n \in TargetNames : Guid(n) \in Range(td_deleted)}

\* C7: the set of pipelines deleted by the teardown is exactly the pipelines
\* present in the target but absent from the repository's desired set; a
\* pipeline present in both is not deleted.
C7_DeletesExactlyStale ==
    td_pc = "done"
    => DeletedPipelines = ListedPipelines(td_items) \ Range(DictNames(td_repo))

\* C8: during teardown a pipeline is deleted only after every pipeline in the
\* target that references it has been deleted.
C8_ReferrersDeletedFirst ==
    [][\A n \in TargetNames :
          (Guid(n) \in td_remote /\ Guid(n) \notin td_remote')
          => ~\E q \in TargetNames :
                 Guid(q) \in td_remote /\ <<q, n>> \in td_refs]_vars

\* ------------------------------------------------------------ orchestrator
max_retries == 3

TheWorkspace == "workspace-id"

ConfigError == "No matching deployment profile found."
CreateError == "Failed to create workspace"
RetrieveError == "exists but could not retrieve details"
SecurityError == "Error occurred while adding security group to workspace"
DeployError == "Unhandled exception in deploy_artifacts()"
ListItemsError == "list_workspace_all_items failed"
TeardownError == "An error occurred while deleting items"
DeleteWorkspaceError == "Error deleting workspace"

Call(name, outcome) == [call |-> name, outcome |-> outcome]

\* does_workspace_exists_by_name: the workspace when the filter returns it,
\* nothing when it returns no row (also a workspace the caller cannot see),
\* or an exception.
LookupOutcomes(exists) ==
    IF exists THEN {"found", "empty", "error"} ELSE {"empty", "error"}

\* POST /workspaces: 201, 409, or another failure whose message may name the
\* conflict.
CreateResponses(exists) ==
    IF exists THEN {"409", "error", "error_conflict"}
    ELSE {"201", "error", "error_conflict"}

\* lines 167-170 applied to the message raised at line 160: only the
\* workspace name can carry one of the words.
RetrieveErrorNamesConflict == name_has_conflict_word

\* Mutation of CleanupNeeded: the handler never deletes.
CleanupNever(id) == FALSE

\* line 306
CleanupNeeded(id) == id # None

\* Mutation of RaisedAfterCleanup: the delete error replaces the original.
RaisedCleanupError(e, cleanup_error) == cleanup_error

\* lines 312-316: the cleanup error is printed, e is raised.
RaisedAfterCleanup(e, cleanup_error) == e

\* Mutation of FirstStep: the artifact steps start at once.
FirstStepSkipsSecurity(path) ==
    IF path = "Found" THEN "teardown" ELSE "deploy_full"

\* lines 287-291 and 323-329: once the workspace id is known, each path
\* starts with add_security_group_to_workspace.
FirstStep(path) ==
    IF path = "Found" THEN "found_security" ELSE "security"

OrchInit ==
    /\ SortIdle /\ RewriteIdle /\ DeployIdle /\ TeardownIdle /\ ArtifactsIdle /\ AuxIdle
    /\ o_pc = "config"
    /\ ws_exists \in BOOLEAN
    /\ ws_owner = IF ws_exists THEN "preexisting" ELSE "none"
    /\ name_has_conflict_word \in BOOLEAN
    /\ stale_notebook \in {b \in BOOLEAN : b => ws_exists}
    /\ workspace_id = None /\ attempt = 0 /\ lookup_caller = "none"
    /\ is_deployment = "unset" /\ conflict = FALSE /\ pending = ""
    /\ cleanup = "none" /\ o_error = "" /\ calls = <<>>

\* lines 217-258: read the profile, get a token, start the first lookup.
ReadConfiguration ==
    /\ o_pc = "config"
    /\ \E ok \in BOOLEAN :
          IF ok
          THEN /\ o_pc' = "lookup" /\ lookup_caller' = "orchestrator"
               /\ attempt' = 0 /\ o_error' = o_error
          ELSE /\ o_pc' = "raised" /\ o_error' = ConfigError
               /\ UNCHANGED <<lookup_caller, attempt>>
    /\ UNCHANGED <<ws_exists, ws_owner, name_has_conflict_word, stale_notebook, workspace_id,
                   is_deployment, conflict, pending, cleanup, calls,
                   sortVars, rwVars, dpVars, tdVars, daVars, auxVars>>

\* Mutation of RetryLeft: one attempt more.
RetryLeftOneMore(n) == n <= max_retries

\* line 41: for attempt in range(max_retries)
RetryLeft(n) == n < max_retries

\* lines 41-56: one attempt of get_workspace_by_name_with_retry; a hit
\* returns to the caller (lines 259-261, 143-146, 177-180).
LookupAttempt ==
    /\ o_pc = "lookup" /\ RetryLeft(attempt)
    /\ \E outcome \in LookupOutcomes(ws_exists) :
          /\ calls' = Append(calls, Call("does_workspace_exists_by_name", outcome))
          /\ IF outcome = "found"
             THEN /\ workspace_id' = TheWorkspace
                  /\ o_pc' = FirstStep(IF lookup_caller = "orchestrator"
                                       THEN "Found" ELSE "Provisioning")
                  /\ attempt' = attempt
             ELSE /\ attempt' = attempt + 1
                  /\ UNCHANGED <<workspace_id, o_pc>>
    /\ UNCHANGED <<ws_exists, ws_owner, name_has_conflict_word, stale_notebook, lookup_caller,
                   is_deployment, conflict, pending, cleanup, o_error,
                   sortVars, rwVars, dpVars, tdVars, daVars, auxVars>>

\* line 58 and the caller's fallback: the listing scan calls
\* list_all_workspaces, which no module defines, so it raises and the
\* exception is printed (lines 264-278, 150-160, 184-194).
LookupGivesUp ==
    /\ o_pc = "lookup" /\ attempt = max_retries
    /\ calls' = Append(calls, Call("list_all_workspaces", "NameError"))
    /\ IF lookup_caller = "orchestrator"
       THEN /\ o_pc' = "create"
            /\ UNCHANGED <<lookup_caller, attempt, pending>>
       ELSE IF lookup_caller = "create" /\ RetrieveErrorNamesConflict
       THEN /\ lookup_caller' = "except" /\ attempt' = 0
            /\ UNCHANGED <<o_pc, pending>>
       ELSE /\ pending' = RetrieveError /\ o_pc' = "handler"
            /\ UNCHANGED <<lookup_caller, attempt>>
    /\ UNCHANGED <<ws_exists, ws_owner, name_has_conflict_word, stale_notebook, workspace_id,
                   is_deployment, conflict, cleanup, o_error,
                   sortVars, rwVars, dpVars, tdVars, daVars, auxVars>>

\* lines 285, 126-197, 91-112: the creation call and what the fallback makes
\* of its answer.
CreateWorkspace ==
    /\ o_pc = "create"
    /\ \E resp \in CreateResponses(ws_exists) :
          /\ calls' = Append(calls, Call("create_workspace", resp))
          /\ IF resp = "201"
             THEN /\ workspace_id' = TheWorkspace /\ ws_exists' = TRUE
                  /\ ws_owner' = "run" /\ o_pc' = FirstStep("Provisioning")
                  /\ UNCHANGED <<conflict, lookup_caller, attempt, pending>>
             ELSE IF resp = "409" \/ resp = "error_conflict"
             THEN /\ conflict' = TRUE /\ o_pc' = "lookup" /\ attempt' = 0
                  /\ lookup_caller' = IF resp = "409" THEN "create" ELSE "except"
                  /\ UNCHANGED <<workspace_id, ws_exists, ws_owner, pending>>
             ELSE /\ pending' = CreateError /\ o_pc' = "handler"
                  /\ UNCHANGED <<workspace_id, ws_exists, ws_owner, conflict,
                                 lookup_caller, attempt>>
    /\ UNCHANGED <<name_has_conflict_word, stale_notebook, is_deployment, cleanup, o_error,
                   sortVars, rwVars, dpVars, tdVars, daVars, auxVars>>

\* lines 289-294
AddSecurityGroupToNewWorkspace ==
    /\ o_pc = "security"
    /\ \E ok \in BOOLEAN :
          /\ calls' = Append(calls, Call("add_security_group_to_workspace",
                                         IF ok THEN "ok" ELSE "error"))
          /\ IF ok
             THEN /\ is_deployment' = "full" /\ o_pc' = "deploy_full"
                  /\ pending' = pending
             ELSE /\ pending' = SecurityError /\ o_pc' = "handler"
                  /\ is_deployment' = is_deployment
    /\ UNCHANGED <<ws_exists, ws_owner, name_has_conflict_word, stale_notebook, workspace_id,
                   attempt, lookup_caller, conflict, cleanup, o_error,
                   sortVars, rwVars, dpVars, tdVars, daVars, auxVars>>

\* lines 298-302: deploy_artifacts(..., is_deployment, items={})
DeployArtifactsFull ==
    /\ o_pc = "deploy_full"
    /\ \E ok \in BOOLEAN :
          /\ calls' = Append(calls, Call("deploy_artifacts", IF ok THEN "ok" ELSE "error"))
          /\ IF ok
             THEN o_pc' = "done" /\ pending' = pending
             ELSE pending' = DeployError /\ o_pc' = "handler"
    /\ UNCHANGED <<ws_exists, ws_owner, name_has_conflict_word, stale_notebook, workspace_id,
                   attempt, lookup_caller, is_deployment, conflict, cleanup,
                   o_error, sortVars, rwVars, dpVars, tdVars, daVars, auxVars>>

\* lines 304-316 and 361-363: the Provisioning handler.
ProvisioningHandler ==
    /\ o_pc = "handler"
    /\ IF CleanupNeeded(workspace_id)
       THEN \E deleted \in BOOLEAN :
              /\ calls' = Append(calls, Call("delete_workspace",
                                             IF deleted THEN "ok" ELSE "error"))
              /\ IF deleted
                 THEN /\ ws_exists' = FALSE /\ ws_owner' = "none"
                      /\ stale_notebook' = FALSE
                      /\ workspace_id' = None /\ cleanup' = "deleted"
                      /\ o_error' = pending
                 ELSE /\ cleanup' = "failed"
                      /\ o_error' = RaisedAfterCleanup(pending, DeleteWorkspaceError)
                      /\ UNCHANGED <<ws_exists, ws_owner, stale_notebook, workspace_id>>
       ELSE /\ o_error' = pending
            /\ UNCHANGED <<ws_exists, ws_owner, stale_notebook, workspace_id,
                           cleanup, calls>>
    /\ o_pc' = "raised"
    /\ UNCHANGED <<name_has_conflict_word, attempt, lookup_caller, is_deployment,
                   conflict, pending, sortVars, rwVars, dpVars, tdVars, daVars, auxVars>>

\* Mutation of AfterFoundPath: the collected message is dropped.
AfterFoundPathSwallowed(error_message) == "done"

\* lines 356-359: a non-empty error_message is raised.
AfterFoundPath(error_message) ==
    IF error_message # "" THEN "raised" ELSE "done"

\* One step of the Found pass: on failure error_message takes the text
\* (lines 353-354) and the pass is left.
FoundStep(from, to, name, error) ==
    /\ o_pc = from
    /\ \E ok \in BOOLEAN :
          /\ calls' = Append(calls, Call(name, IF ok THEN "ok" ELSE "error"))
          /\ IF ok
             THEN o_pc' = to /\ o_error' = o_error
             ELSE o_pc' = AfterFoundPath(error) /\ o_error' = error
    /\ UNCHANGED <<ws_exists, ws_owner, name_has_conflict_word, stale_notebook, workspace_id,
                   attempt, lookup_caller, conflict, pending, cleanup,
                   sortVars, rwVars, dpVars, tdVars, daVars, auxVars>>

\* lines 323-329
AddSecurityGroupToExistingWorkspace ==
    /\ FoundStep("found_security", "list_items",
                 "add_security_group_to_workspace", SecurityError)
    /\ is_deployment' = "incremental"

\* line 333
ListWorkspaceAllItems ==
    /\ FoundStep("list_items", "teardown", "list_workspace_all_items", ListItemsError)
    /\ UNCHANGED is_deployment

\* lines 337-343
DeleteOldItems ==
    /\ FoundStep("teardown", "quiesce", "delete_old_items", TeardownError)
    /\ UNCHANGED is_deployment

\* lines 341-343: time.sleep(450)
QuiescenceDelay ==
    /\ o_pc = "quiesce"
    /\ calls' = Append(calls, Call("time.sleep", "elapsed"))
    /\ o_pc' = "deploy_incremental"
    /\ UNCHANGED <<ws_exists, ws_owner, name_has_conflict_word, stale_notebook,
                   workspace_id, attempt, lookup_caller, is_deployment, conflict,
                   pending, cleanup, o_error,
                   sortVars, rwVars, dpVars, tdVars, daVars, auxVars>>

\* Inside deploy_artifacts, deploy_notebooks line 1489: clean_deleted_item
\* deletes the fetched notebooks no repository folder names; a status other
\* than 200 raises out of deploy_artifacts.
CleanDeletedItemInPass ==
    /\ o_pc = "deploy_incremental" /\ stale_notebook
    /\ \E ok \in BOOLEAN :
          IF ok
          THEN /\ calls' = Append(calls, Call("clean_deleted_item", "ok"))
               /\ stale_notebook' = FALSE
               /\ UNCHANGED <<o_pc, o_error>>
          ELSE /\ calls' = calls \o <<Call("clean_deleted_item", "error"),
                                      Call("deploy_artifacts", "error")>>
               /\ o_pc' = AfterFoundPath(DeployError) /\ o_error' = DeployError
               /\ UNCHANGED stale_notebook
    /\ UNCHANGED <<ws_exists, ws_owner, name_has_conflict_word, workspace_id,
                   attempt, lookup_caller, is_deployment, conflict, pending,
                   cleanup, sortVars, rwVars, dpVars, tdVars, daVars, auxVars>>

\* lines 347-351: deploy_artifacts(..., is_deployment, items=items)
DeployArtifactsIncremental ==
    /\ ~stale_notebook
    /\ FoundStep("deploy_incremental", "done", "deploy_artifacts", DeployError)
    /\ UNCHANGED is_deployment

OrchNext ==
    \/ ReadConfiguration
    \/ LookupAttempt
    \/ LookupGivesUp
    \/ CreateWorkspace
    \/ AddSecurityGroupToNewWorkspace
    \/ DeployArtifactsFull
    \/ ProvisioningHandler
    \/ AddSecurityGroupToExistingWorkspace
    \/ ListWorkspaceAllItems
    \/ DeleteOldItems
    \/ QuiescenceDelay
    \/ CleanDeletedItemInPass
    \/ DeployArtifactsIncremental
SpecOrch == OrchInit /\ [][OrchNext]_vars

\* ---------------------------------------------------- SpecOrch: properties
Issued(name) == \E i \in 1..Len(calls) : calls[i].call = name

\* C4: when the workspace creation call returns a name conflict, the
\* existing workspace's id is resolved without raising and the orchestrator
\* proceeds with incremental reconciliation, not with full deployment.
C4_ConflictGoesIncremental ==
    conflict => /\ pending # RetrieveError
                /\ is_deployment # "full"

\* C5: in the Provisioning path, if a step after the workspace was created
\* (security group or artifact deployment) fails, the orchestrator issues a
\* delete of that workspace before it raises.
C5_DeleteIssuedBeforeRaise ==
    (o_pc = "raised" /\ Issued("create_workspace")
        /\ o_error \in {SecurityError, DeployError})
    => calls[Len(calls)].call = "delete_workspace"

\* The run created the workspace, the artifact deployment failed, the
\* workspace was deleted and the deployment error raised.
C5_Witness ==
    /\ o_pc = "raised" /\ o_error = DeployError
    /\ Call("create_workspace", "201") \in Range(calls)
    /\ calls[Len(calls)] = Call("delete_workspace", "ok")
    /\ ~ws_exists

\* C6: when the compensating delete itself fails, the error raised is the
\* original deployment error, not the delete error.
C6_OriginalErrorRaised ==
    (o_pc = "raised" /\ cleanup = "failed")
    => /\ o_error = pending
       /\ o_error \in {SecurityError, DeployError}

\* The artifact deployment failed, the delete failed too, and the
\* deployment error is the one raised; the workspace is still there.
C6_Witness ==
    /\ o_pc = "raised" /\ cleanup = "failed" /\ o_error = DeployError
    /\ calls[Len(calls)] = Call("delete_workspace", "error")
    /\ ws_exists

\* The steps of the two paths and the outcomes that are failures of the step.
StepFailed(c) ==
    \/ /\ c.call \in {"add_security_group_to_workspace", "list_workspace_all_items",
                       "delete_old_items", "deploy_artifacts"}
       /\ c.outcome = "error"
    \/ c.call = "create_workspace" /\ c.outcome = "error"

\* C14: the orchestrator returns normally only when no step of the run
\* failed and the workspace was resolved; after a failed step of either path
\* no further step is called (only the compensating delete), the run ends
\* raising a non-empty error, and it never ends normally.
C14_FailureAlwaysRaises ==
    /\ \A i \in 1..Len(calls) :
          StepFailed(calls[i])
             => /\ o_pc \in {"handler", "raised"}
                /\ \A j \in (i + 1)..Len(calls) : calls[j].call = "delete_workspace"
    /\ o_pc = "raised" => o_error # ""
    /\ o_pc = "handler" => pending # ""
    /\ o_pc = "done"
          => /\ workspace_id # None /\ o_error = ""
             /\ calls[Len(calls)] = Call("deploy_artifacts", "ok")
             /\ Call("add_security_group_to_workspace", "ok") \in Range(calls)

\* The Found path failed in delete_old_items and the error was raised.
C14_Witness ==
    /\ o_pc = "raised" /\ o_error = TeardownError
    /\ calls[Len(calls)] = Call("delete_old_items", "error")
    /\ is_deployment = "incremental"

\* The calls that create, update or delete items of the workspace.
ArtifactCalls == {"delete_old_items", "clean_deleted_item", "deploy_artifacts"}

\* C20: in both paths every call that creates, updates or deletes items of
\* the workspace is issued after add_security_group_to_workspace has
\* returned successfully.
C20_SecurityBeforeArtifacts ==
    \A j \in 1..Len(calls) :
       calls[j].call \in ArtifactCalls
          => \E i \in 1..(j - 1) :
                calls[i] = Call("add_security_group_to_workspace", "ok")

\* Both artifact calls of the Found path were issued.
C20_Witness ==
    /\ is_deployment = "incremental"
    /\ Issued("delete_old_items") /\ Issued("deploy_artifacts")

\* -------------------------------------------------------- deploy_artifacts
MaxNotebooks == 2
Notebooks == 1..MaxNotebooks
\* A notebook name no repository notebook carries.
StaleNotebook == MaxNotebooks + 1

RECURSIVE Ascending(_)
\* The names of a set in scan order.
Ascending(S) ==
    IF S = {} THEN <<>>
    ELSE LET m == CHOOSE x \in S : \A y \in S : x <= y
         IN  <<m>> \o Ascending(S \ {m})

\* Repositories of a pass: at most one lakehouse and one eventhouse, any
\* notebooks (by display name), at most one of them in a folder that still
\* carries an older name, and no pipeline, one pipeline, a pipeline invoking
\* a second one scanned after it, or a pipeline invoking itself.
PassPipelines ==
    { <<>>,
      <<[name |-> 1, refs |-> <<>>]>>,
      <<[name |-> 1, refs |-> <<LogicalId(2)>>], [name |-> 2, refs |-> <<>>]>>,
      <<[name |-> 1, refs |-> <<LogicalId(1)>>]>> }

PassRepos ==
    {r \in [lakehouses : SUBSET {1}, eventhouses : SUBSET {1},
            notebooks : SUBSET Notebooks, renamed : 0..MaxNotebooks,
            pipelines : PassPipelines] :
        r.renamed = 0 \/ r.renamed \in r.notebooks}

\* The name of the folder "<name>.Notebook" holding the notebook whose
\* .platform display name is n.
FolderName(repo, n) == IF n = repo.renamed THEN StaleNotebook ELSE n

Kind(type, names) == {<<type, n>> : n \in names}

PassTargets ==
    {Kind("Lakehouse", l) \cup Kind("Eventhouse", e) \cup Kind("Notebook", n)
       \cup Kind("DataPipeline", p) :
       l \in SUBSET {1}, e \in SUBSET {1},
       n \in SUBSET (Notebooks \cup {StaleNotebook}), p \in SUBSET {1}}

\* line 1804: existing_items, keyed "<displayName>.<type>"
ExistingItems(items) == items

\* Responses of a create request: 201, 202 whose operation then succeeds or
\* fails, or a refusal; a display name in use within the kind is refused.
ItemCreateResponses(exists) ==
    IF exists THEN {"409"} ELSE {"201", "202_succeeded", "202_failed", "500"}

\* Responses of an updateDefinition request.
ItemUpdateResponses(exists) ==
    IF exists THEN {"200", "202_succeeded", "202_failed", "500"} ELSE {"404"}

ItemDeleteResponses(exists) == IF exists THEN {"200", "500"} ELSE {"404"}

\* The item exists in the workspace after the request.
Stored(response) == response \in {"200", "201", "202_succeeded"}

\* create_lakehouse / create_eventhouse, lines 509-516 and 1392-1396: only
\* a 201 carries the item; the body of a 202 has no displayName and id.
HouseCreated(response) == response = "201"

\* create_notebook lines 597-610, create_data_pipeline lines 1203-1212: 200,
\* 201, and 202 once handle_async_creation returned the result.
ItemDeployed(response) == response \in {"200", "201", "202_succeeded"}

Op(op, type, name, response, existed) ==
    [op |-> op, type |-> type, name |-> name, response |-> response,
     existed |-> existed]

Record(type, name) == [artifact_type |-> type, artifact_name |-> name]

Phases == <<"lakehouses", "eventhouses", "clean", "notebooks", "pipelines",
            "environment">>

\* Mutation of NextPhase: pipelines are deployed before the notebooks.
NextPhaseSwapped(phase) ==
    CASE phase = "lakehouses" -> "eventhouses"
      [] phase = "eventhouses" -> "pipelines"
      [] phase = "pipelines" -> "clean"
      [] phase = "clean" -> "notebooks"
      [] phase = "notebooks" -> "environment"
      [] OTHER -> "done"

\* lines 1806-1835 and 1489-1492: the order of the calls.
NextPhase(phase) ==
    CASE phase = "lakehouses" -> "eventhouses"
      [] phase = "eventhouses" -> "clean"
      [] phase = "clean" -> "notebooks"
      [] phase = "notebooks" -> "pipelines"
      [] phase = "pipelines" -> "environment"
      [] OTHER -> "done"

\* Mutation of OnPhaseError: the pass goes on with the next phase.
OnPhaseErrorContinue(phase) == NextPhase(phase)

\* lines 1812-1815, 1824-1827, 1836-1844: the exception leaves the pass.
OnPhaseError(phase) == "failed"

\* clean_deleted_item lines 1424-1441: the fetched notebooks whose display
\* name no repository notebook folder carries.
ItemsToDelete(existing_items, repo) ==
    LET item_from_path == {FolderName(repo, n) : n \in repo.notebooks}
    IN  {n \in Notebooks \cup {StaleNotebook} :
           <<"Notebook", n>> \in existing_items /\ n \notin item_from_path}

\* What the loop of a phase iterates over.
Todo(phase, full, repo, items) ==
    CASE phase = "lakehouses" -> IF full THEN Ascending(repo.lakehouses) ELSE <<>>
      [] phase = "eventhouses" -> IF full THEN Ascending(repo.eventhouses) ELSE <<>>
      [] phase = "clean" -> Ascending(ItemsToDelete(ExistingItems(items), repo))
      [] phase = "notebooks" -> Ascending(repo.notebooks)
      [] phase = "pipelines" ->
            LET r == SortDatapipelines(repo.pipelines, "Repository")
            IN  IF r.ok THEN r.order ELSE <<>>
      [] OTHER -> <<>>

ArtifactsInit ==
    /\ SortIdle /\ RewriteIdle /\ DeployIdle /\ TeardownIdle /\ OrchIdle
    /\ AuxIdle
    /\ da_pc = "lakehouses"
    /\ da_is_deployment \in BOOLEAN
    /\ da_repo \in PassRepos
    /\ da_initial \in PassTargets
    /\ da_items = IF da_is_deployment THEN {} ELSE da_initial
    /\ da_remote = da_initial
    /\ da_todo = Todo("lakehouses", da_is_deployment, da_repo, da_items)
    /\ da_ops = <<>>
    /\ guids = <<Record("Workspace", 0)>>
    /\ da_error = "" /\ da_returned = NotReturned

PassFrame == UNCHANGED <<da_is_deployment, da_repo, da_items, da_initial,
                         sortVars, rwVars, dpVars, tdVars, oVars, auxVars>>

\* deploy_lakehouse lines 1369-1400 / deploy_eventhouse lines 1638-1661: one
\* iteration.
CreateHouse(phase, type, error) ==
    /\ da_pc = phase /\ da_todo # <<>>
    /\ LET name == Head(da_todo)
           existed == <<type, name>> \in da_remote
       IN  \E response \in ItemCreateResponses(existed) :
             /\ da_ops' = Append(da_ops, Op("create", type, name, response, existed))
             /\ da_remote' = IF Stored(response) THEN da_remote \cup {<<type, name>>}
                             ELSE da_remote
             /\ IF HouseCreated(response)
                THEN /\ da_todo' = Tail(da_todo)
                     /\ UNCHANGED <<da_pc, da_error>>
                ELSE /\ da_pc' = OnPhaseError(phase) /\ da_error' = error
                     /\ da_todo' = da_todo
    /\ UNCHANGED <<guids, da_returned>>
    /\ PassFrame

CreateLakehouse ==
    CreateHouse("lakehouses", "Lakehouse", "Error during lakehouse deployment.")

CreateEventhouse ==
    CreateHouse("eventhouses", "Eventhouse", "Error during eventhouse deployment.")

PhaseError == "Error during notebook/pipeline/environment deployment."

\* clean_deleted_item lines 1455-1467: one iteration.
CleanDeletedItem ==
    /\ da_pc = "clean" /\ da_todo # <<>>
    /\ LET name == Head(da_todo)
           existed == <<"Notebook", name>> \in da_remote
       IN  \E response \in ItemDeleteResponses(existed) :
             /\ da_ops' = Append(da_ops, Op("delete", "Notebook", name, response, existed))
             /\ IF response = "200"
                THEN /\ da_remote' = da_remote \ {<<"Notebook", name>>}
                     /\ da_todo' = Tail(da_todo)
                     /\ UNCHANGED <<da_pc, da_error>>
                ELSE /\ da_pc' = OnPhaseError("clean") /\ da_error' = PhaseError
                     /\ UNCHANGED <<da_remote, da_todo>>
    /\ UNCHANGED <<guids, da_returned>>
    /\ PassFrame

\* Mutation of NotebookRequest: always a create.
NotebookRequestCreate(name, existing_items) == "create"

\* create_notebook lines 581-591
NotebookRequest(name, existing_items) ==
    IF <<"Notebook", name>> \in existing_items THEN "update" ELSE "create"

\* deploy_notebooks lines 1492-1541 with create_notebook: one iteration.
CreateNotebook ==
    /\ da_pc = "notebooks" /\ da_todo # <<>>
    /\ LET name == Head(da_todo)
           request == NotebookRequest(name, ExistingItems(da_items))
           existed == <<"Notebook", name>> \in da_remote
       IN  \E response \in (IF request = "update" THEN ItemUpdateResponses(existed)
                             ELSE ItemCreateResponses(existed)) :
             /\ da_ops' = Append(da_ops, Op(request, "Notebook", name, response, existed))
             /\ da_remote' = IF Stored(response)
                             THEN da_remote \cup {<<"Notebook", name>>} ELSE da_remote
             /\ IF ItemDeployed(response)
                THEN /\ guids' = Append(guids, Record("Notebook", name))
                     /\ da_todo' = Tail(da_todo)
                     /\ UNCHANGED <<da_pc, da_error>>
                ELSE /\ da_pc' = OnPhaseError("notebooks") /\ da_error' = PhaseError
                     /\ UNCHANGED <<guids, da_todo>>
    /\ UNCHANGED da_returned
    /\ PassFrame

\* The catalog one rewrite of the pass sees.
PassCatalog(repo, remote) ==
    RepositoryItems(repo.pipelines,
                    {n \in Pipes : <<"DataPipeline", n>> \in remote})

\* deploy_pipelines lines 1609-1613 with create_data_pipeline: one iteration.
CreatePipeline ==
    /\ da_pc = "pipelines" /\ da_todo # <<>>
    /\ LET name == Head(da_todo)
           existed == <<"DataPipeline", name>> \in da_remote
           r == ReplaceLogicalIds(DefinitionText(RefsOf(da_repo.pipelines, name)),
                                  PassCatalog(da_repo, da_remote), WorkspaceId)
       IN  IF ~r.ok
           THEN /\ da_pc' = OnPhaseError("pipelines") /\ da_error' = PhaseError
                /\ UNCHANGED <<da_ops, da_remote, guids, da_todo>>
           ELSE \E response \in ItemCreateResponses(existed) :
                  /\ da_ops' = Append(da_ops,
                                      Op("create", "DataPipeline", name, response, existed))
                  /\ da_remote' = IF Stored(response)
                                  THEN da_remote \cup {<<"DataPipeline", name>>}
                                  ELSE da_remote
                  /\ IF ItemDeployed(response)
                     THEN /\ guids' = Append(guids, Record("DataPipeline", name))
                          /\ da_todo' = Tail(da_todo)
                          /\ UNCHANGED <<da_pc, da_error>>
                     ELSE /\ da_pc' = OnPhaseError("pipelines")
                          /\ da_error' = PhaseError
                          /\ UNCHANGED <<guids, da_todo>>
    /\ UNCHANGED da_returned
    /\ PassFrame

\* lines 1803-1839: the body ends after deploy_custom_environment without a
\* return statement; the ledger stays a local.
ReturnValue(ledger) == None

\* The loop of a phase is exhausted: the next call starts (for the pipelines
\* with the sort, lines 1604-1607, which raises on a cycle), or the pass
\* returns.
PhaseComplete ==
    /\ da_pc \in Range(Phases) /\ da_todo = <<>>
    /\ LET next == NextPhase(da_pc)
       IN  IF next = "pipelines"
              /\ ~SortDatapipelines(da_repo.pipelines, "Repository").ok
           THEN /\ da_pc' = OnPhaseError(da_pc) /\ da_error' = PhaseError
                /\ da_todo' = da_todo /\ da_returned' = da_returned
           ELSE /\ da_pc' = next /\ da_error' = da_error
                /\ da_todo' = Todo(next, da_is_deployment, da_repo, da_items)
                /\ da_returned' = IF next = "done" THEN ReturnValue(guids)
                                  ELSE da_returned
    /\ UNCHANGED <<da_ops, da_remote, guids>>
    /\ PassFrame

ArtifactsNext ==
    \/ CreateLakehouse
    \/ CreateEventhouse
    \/ CleanDeletedItem
    \/ CreateNotebook
    \/ CreatePipeline
    \/ PhaseComplete
SpecArtifacts == ArtifactsInit /\ [][ArtifactsNext]_vars

PhaseRank(type) ==
    CASE type = "Lakehouse" -> 1
      [] type = "Eventhouse" -> 2
      [] type = "Notebook" -> 3
      [] type = "DataPipeline" -> 4

\* The request has run to its end: a final status, or a 202 whose operation
\* was polled to its end. The 202 of a lakehouse or eventhouse is not polled.
Completed(o) ==
    o.type \in {"Lakehouse", "Eventhouse"} => o.response # "202_succeeded"
                                              /\ o.response # "202_failed"

\* C12: in every pass the requests are issued in the order Lakehouses,
\* Eventhouses, Notebooks, Data Pipelines (the Environment phase issues none
\* and comes last): a request of a later phase is issued only after every
\* request of every earlier phase has run to its end.
C12_PhasesInFixedOrder ==
    /\ \A i, j \in 1..Len(da_ops) :
          i < j => /\ PhaseRank(da_ops[i].type) <= PhaseRank(da_ops[j].type)
                   /\ Completed(da_ops[i])
    /\ da_pc \in {"environment", "done"}
          => /\ da_todo = <<>>
             /\ \A i \in 1..Len(da_ops) : Completed(da_ops[i])

C12_Witness ==
    /\ da_pc = "done"
    /\ \E i, j, k, l \in 1..Len(da_ops) :
          /\ i < j /\ j < k /\ k < l
          /\ da_ops[i].type = "Lakehouse" /\ da_ops[j].type = "Eventhouse"
          /\ da_ops[k].type = "Notebook" /\ da_ops[l].type = "DataPipeline"

\* The request did what its caller asked for.
Succeeded(o) ==
    CASE o.type \in {"Lakehouse", "Eventhouse"} -> HouseCreated(o.response)
      [] o.op = "delete" -> o.response = "200"
      [] OTHER -> ItemDeployed(o.response)

\* C13: a failed request of a pass is its last request (no request of a later
\* phase follows), the pass ends raising, and every item the pass created or
\* updated before is still in the workspace.
C13_FailureAbortsWithoutRollback ==
    /\ \A i \in 1..Len(da_ops) :
          ~Succeeded(da_ops[i])
             => /\ i = Len(da_ops)
                /\ da_pc = "failed"
    /\ da_pc = "failed" => da_error # "" /\ da_returned = NotReturned
    /\ \A i \in 1..Len(da_ops) :
          (da_ops[i].op \in {"create", "update"} /\ Stored(da_ops[i].response))
             => <<da_ops[i].type, da_ops[i].name>> \in da_remote

C13_Witness ==
    /\ da_pc = "failed"
    /\ Len(da_ops) = 2
    /\ da_ops[1].type = "Lakehouse" /\ da_ops[1].response = "201"
    /\ da_ops[2].type = "Notebook" /\ da_ops[2].response = "500"
    /\ da_repo.pipelines # <<>>
    /\ <<"Lakehouse", da_ops[1].name>> \in da_remote
    /\ <<"Lakehouse", da_ops[1].name>> \notin da_initial

\* The create and update requests of the pass for notebook n.
NotebookRequests(n) ==
    {i \in 1..Len(da_ops) :
        /\ da_ops[i].type = "Notebook" /\ da_ops[i].name = n
        /\ da_ops[i].op \in {"create", "update"}}

\* C19: for each repository notebook at most one request is issued; it is an
\* update of the fetched item of that name when the fetched items hold one
\* (an item is identified by its kind and display name), otherwise a create;
\* once the notebooks are through, exactly one was issued for each.
C19_UpdateIfFetchedElseCreate ==
    \A n \in da_repo.notebooks :
       /\ Cardinality(NotebookRequests(n)) <= 1
       /\ \A i \in NotebookRequests(n) :
             da_ops[i].op = IF <<"Notebook", n>> \in da_items
                            THEN "update" ELSE "create"
       /\ da_pc \in {"pipelines", "environment", "done"}
             => Cardinality(NotebookRequests(n)) = 1

\* An incremental pass updated fetched notebook 1 and created notebook 2.
C19_Witness ==
    /\ da_pc = "done" /\ ~da_is_deployment
    /\ \E i, j \in 1..Len(da_ops) :
          /\ da_ops[i] = Op("update", "Notebook", 1, "200", TRUE)
          /\ da_ops[j] = Op("create", "Notebook", 2, "201", FALSE)

\* The target already holds every item of the repository, as a completed
\* earlier run leaves it.
SecondRun ==
    /\ Kind("Lakehouse", da_repo.lakehouses) \subseteq da_initial
    /\ Kind("Eventhouse", da_repo.eventhouses) \subseteq da_initial
    /\ Kind("Notebook", da_repo.notebooks) \subseteq da_initial
    /\ \A i \in 1..Len(da_repo.pipelines) :
          <<"DataPipeline", da_repo.pipelines[i].name>> \in da_initial

\* C15: a full pass over a target that already holds the repository's items
\* issues no create request for an item whose kind and display name exist
\* in the target.
C15_NoDuplicateCreate ==
    (da_is_deployment /\ SecondRun)
    => \A i \in 1..Len(da_ops) : da_ops[i].op = "create" => ~da_ops[i].existed

\* C16: every successful create or update has its record in the ledger, and
\* the pass returns the ledger.
C16_LedgerCompleteAndReturned ==
    /\ \A i \in 1..Len(da_ops) :
          (da_ops[i].op \in {"create", "update"} /\ Succeeded(da_ops[i]))
             => Record(da_ops[i].type, da_ops[i].name) \in Range(guids)
    /\ da_pc = "done" => da_returned = guids

\* C17: once the Lakehouses phase is through, in either mode, every
\* repository lakehouse the target lacked has been created, and no request
\* was issued for a lakehouse the target held.
C17_LakehousesCreatedIfAbsent ==
    /\ da_pc \in {"eventhouses", "clean", "notebooks", "pipelines",
                  "environment", "done"}
          => \A n \in da_repo.lakehouses :
                <<"Lakehouse", n>> \notin da_initial
                   => \E i \in 1..Len(da_ops) :
                         da_ops[i] = Op("create", "Lakehouse", n, "201", FALSE)
    /\ \A i \in 1..Len(da_ops) :
          da_ops[i].type = "Lakehouse" => ~da_ops[i].existed

\* C18: once the notebook requests start, no notebook the target held and
\* the repository lacks is left, and every delete precedes every notebook
\* create or update.
C18_StaleNotebooksDeletedFirst ==
    /\ da_pc \in {"notebooks", "pipelines", "environment", "done"}
          => \A n \in Notebooks \cup {StaleNotebook} :
                (<<"Notebook", n>> \in da_initial /\ n \notin da_repo.notebooks)
                   => <<"Notebook", n>> \notin da_remote
    /\ \A i, j \in 1..Len(da_ops) :
          (da_ops[i].op = "delete" /\ da_ops[j].type = "Notebook"
              /\ da_ops[j].op \in {"create", "update"})
             => i < j

\* ------------------------------------------ add_security_group_to_workspace
MaxUsers == 2
\* Identifiers a configuration can declare.
DeclaredIds == 1..MaxUsers
\* Identifiers a workspace can hold: the declared ones and one more.
UserIds == 1..(MaxUsers + 1)

\* Spellings of the access right in the configuration, and the spelling the
\* service reports in groupUserAccessRight.
DeclaredRoles == {"Admin", "admin", "Member"}
ServiceRoles == {"Admin", "Member"}
Absent == "absent"

\* str.lower()
Lower(role) ==
    CASE role = "Admin" -> "admin"
      [] role = "Member" -> "member"
      [] OTHER -> role

\* The access right the service stores for a requested one.
ServiceRole(access) == IF Lower(access) = "admin" THEN "Admin" ELSE "Member"

\* list_current_workspace_users line 283: identifier -> lowered access right.
CurrentUsers(members) ==
    [u \in {v \in DOMAIN members : members[v] # Absent} |-> Lower(members[u])]

\* Mutation of AccessDiffers: the spellings are compared as they are.
AccessDiffersExact(members, identifier, access) == members[identifier] # access

\* prepare_users_to_add lines 306, 313
AccessDiffers(members, identifier, access) ==
    Lower(CurrentUsers(members)[identifier]) # Lower(access)

Request(request, identifier, access) ==
    [request |-> request, identifier |-> identifier, access |-> access]

\* Mutation of UsersToRemove: every current user is removed.
UsersToRemoveAll(user_info_list, members) ==
    {u \in DOMAIN CurrentUsers(members) : TRUE}

\* prepare_users_to_add line 316 with remove_users line 458: the current
\* users not set to None, which are those no declared entry names.
UsersToRemove(user_info_list, members) ==
    {u \in DOMAIN CurrentUsers(members) :
        \A i \in 1..Len(user_info_list) : user_info_list[i].identifier # u}

\* prepare_users_to_add lines 304-316 and the loops of add_users,
\* update_user_access and remove_users, in the order of lines 499-501.
PlannedRequests(user_info_list, members) ==
    LET current == DOMAIN CurrentUsers(members)
        adds == SelectSeq(user_info_list, LAMBDA e : e.identifier \notin current)
        updates == SelectSeq(user_info_list,
                             LAMBDA e : /\ e.identifier \in current
                                        /\ AccessDiffers(members, e.identifier, e.access))
        removes == Ascending(UsersToRemove(user_info_list, members))
    IN  [i \in 1..Len(adds) |-> Request("add", adds[i].identifier, adds[i].access)]
        \o [i \in 1..Len(updates) |->
               Request("update", updates[i].identifier, updates[i].access)]
        \o [i \in 1..Len(removes) |-> Request("remove", removes[i], Absent)]

\* Configurations: entries with distinct identifiers, in any order.
Declarations ==
    {d \in UNION {[1..n -> [identifier : DeclaredIds, access : DeclaredRoles]] :
                    n \in 0..MaxUsers} :
        \A i, j \in 1..Len(d) : i # j => d[i].identifier # d[j].identifier}

\* Configurations that name their first identifier once more, at the end.
RepeatingDeclarations ==
    {Append(d, [identifier |-> d[1].identifier, access |-> a]) :
        d \in {c \in Declarations : Len(c) >= 1 /\ Len(c) < MaxUsers},
        a \in DeclaredRoles}

RECURSIVE ParseUserInfo(_, _)
\* parse_user_info lines 180-206: an entry whose (identifier, lowered
\* access) was seen is not appended again.
ParseUserInfo(entries, user_info_list) ==
    IF entries = <<>> THEN user_info_list
    ELSE LET e == Head(entries)
             seen == \E i \in 1..Len(user_info_list) :
                        /\ user_info_list[i].identifier = e.identifier
                        /\ Lower(user_info_list[i].access) = Lower(e.access)
         IN  ParseUserInfo(Tail(entries),
                           IF seen THEN user_info_list ELSE Append(user_info_list, e))

\* Mutation of ValidateNoDuplicates: every list passes.
ValidateNoDuplicatesAlways(user_info_list) == TRUE

\* validate_no_duplicates lines 232-244: FALSE when it raises, which is when
\* an identifier comes again with another lowered role.
ValidateNoDuplicates(user_info_list) ==
    \A i, j \in 1..Len(user_info_list) :
        user_info_list[i].identifier = user_info_list[j].identifier
           => Lower(user_info_list[i].access) = Lower(user_info_list[j].access)

SecurityInit ==
    /\ SortIdle /\ RewriteIdle /\ DeployIdle /\ TeardownIdle /\ OrchIdle
    /\ ArtifactsIdle /\ PollIdle /\ BatchIdle /\ MoreIdle
    /\ sg_pc = "list" /\ sg_run = 1 /\ sg_listed = 0
    /\ sg_declared \in Declarations \cup RepeatingDeclarations
    /\ sg_initial \in [UserIds -> ServiceRoles \cup {Absent}]
    /\ sg_members = sg_initial
    /\ sg_todo = <<>> /\ sg_requests = <<>>

SecurityFrame == UNCHANGED <<sg_declared, sg_initial, sortVars, rwVars, dpVars,
                             tdVars, oVars, daVars, plVars, btVars, moreVars>>

\* lines 490-496: parse, validate, list the current users, prepare.
ListCurrentWorkspaceUsers ==
    /\ sg_pc = "list"
    /\ LET user_info_list == ParseUserInfo(sg_declared, <<>>)
       IN  IF ~ValidateNoDuplicates(user_info_list)
           THEN /\ sg_pc' = "failed"
                /\ UNCHANGED <<sg_todo, sg_listed>>
           ELSE /\ sg_listed' = sg_listed + 1
                /\ \E ok \in BOOLEAN :
                      IF ok
                      THEN /\ sg_todo' = PlannedRequests(user_info_list, sg_members)
                           /\ sg_pc' = "requests"
                      ELSE /\ sg_pc' = "failed" /\ sg_todo' = sg_todo
    /\ UNCHANGED <<sg_members, sg_requests, sg_run>>
    /\ SecurityFrame

\* What a request answered with 200 does to the membership.
Applied(members, r) ==
    [members EXCEPT ![r.identifier] =
        IF r.request = "remove" THEN Absent ELSE ServiceRole(r.access)]

\* lines 499-501: one iteration of add_users, update_user_access or
\* remove_users; a status other than 200 raises.
SendUserRequest ==
    /\ sg_pc = "requests" /\ sg_todo # <<>>
    /\ LET r == Head(sg_todo)
       IN  \E response \in {"200", "error"} :
             /\ sg_requests' = Append(sg_requests,
                                      [run |-> sg_run, request |-> r.request,
                                       identifier |-> r.identifier,
                                       response |-> response])
             /\ IF response = "200"
                THEN /\ sg_members' = Applied(sg_members, r)
                     /\ sg_todo' = Tail(sg_todo) /\ sg_pc' = sg_pc
                ELSE /\ sg_pc' = "failed"
                     /\ UNCHANGED <<sg_members, sg_todo>>
    /\ UNCHANGED <<sg_run, sg_listed>>
    /\ SecurityFrame

\* The three loops are through: the function returns.
SecurityGroupReturn ==
    /\ sg_pc = "requests" /\ sg_todo = <<>>
    /\ sg_pc' = "done"
    /\ UNCHANGED <<sg_members, sg_todo, sg_requests, sg_run, sg_listed>>
    /\ SecurityFrame

\* The next run calls the function again with the same configuration.
SecurityGroupSecondRun ==
    /\ sg_pc = "done" /\ sg_run = 1
    /\ sg_run' = 2 /\ sg_pc' = "list"
    /\ UNCHANGED <<sg_members, sg_todo, sg_requests, sg_listed>>
    /\ SecurityFrame

SecurityNext ==
    \/ ListCurrentWorkspaceUsers
    \/ SendUserRequest
    \/ SecurityGroupReturn
    \/ SecurityGroupSecondRun
SpecSecurity == SecurityInit /\ [][SecurityNext]_vars

\* The declared entry of identifier u, if any.
DeclaredAccess(u) ==
    LET hits == {i \in 1..Len(sg_declared) : sg_declared[i].identifier = u}
    IN  IF hits = {} THEN Absent
        ELSE ServiceRole(sg_declared[CHOOSE i \in hits : TRUE].access)

Sent(run, request, u) ==
    \E i \in 1..Len(sg_requests) :
       /\ sg_requests[i].run = run /\ sg_requests[i].request = request
       /\ sg_requests[i].identifier = u /\ sg_requests[i].response = "200"

\* C21: when add_security_group_to_workspace has returned, the membership is
\* the declared one (every declared identifier with its declared role, no
\* other member); a member whose role differed got an update request and a
\* member not declared a remove request.
C21_MembershipEqualsDeclared ==
    (sg_pc = "done" /\ sg_run = 1)
    => \A u \in UserIds :
          /\ sg_members[u] = DeclaredAccess(u)
          /\ (sg_initial[u] # Absent /\ DeclaredAccess(u) # Absent
                 /\ sg_initial[u] # DeclaredAccess(u)) => Sent(1, "update", u)
          /\ (sg_initial[u] # Absent /\ DeclaredAccess(u) = Absent)
                => Sent(1, "remove", u)
          /\ (sg_initial[u] = Absent /\ DeclaredAccess(u) # Absent)
                => Sent(1, "add", u)

\* One member was added, one updated and one removed.
C21_Witness ==
    /\ sg_pc = "done" /\ sg_run = 1
    /\ Sent(1, "add", 1) /\ Sent(1, "update", 2) /\ Sent(1, "remove", 3)

\* C22: the second run with the same declared members, against the
\* membership the first run left, sends no request.
C22_SecondRunSendsNothing ==
    \A i \in 1..Len(sg_requests) : sg_requests[i].run = 1

\* The first run changed the membership for a declaration in another
\* spelling than the service's, and the second run is through.
C22_Witness ==
    /\ sg_pc = "done" /\ sg_run = 2
    /\ Len(sg_requests) = 3
    /\ \E i \in 1..Len(sg_declared) : sg_declared[i].access = "admin"

\* Position of the quiescence delay in the calls of the run, 0 before it.
DelayAt ==
    IF \E i \in 1..Len(calls) : calls[i].call = "time.sleep"
    THEN CHOOSE i \in 1..Len(calls) : calls[i].call = "time.sleep"
    ELSE 0

\* C23: in the Found path no stale item is deleted after the quiescence
\* delay, and nothing is created or updated before it.
C23_DelaySeparatesDeleteFromCreate ==
    \A j \in 1..Len(calls) :
       /\ (DelayAt # 0 /\ j > DelayAt)
             => calls[j].call \notin {"delete_old_items", "clean_deleted_item"}
       /\ (is_deployment = "incremental" /\ (DelayAt = 0 \/ j < DelayAt))
             => calls[j].call # "deploy_artifacts"

\* C24: one existence check makes at most max_retries lookups, a lookup
\* that finds the workspace is the last one, a failed lookup does not raise,
\* and after the last attempt the check returns without a workspace.
C24_BoundedLookup ==
    /\ attempt <= max_retries
    /\ \A i \in 1..Len(calls) :
          /\ (\A k \in 0..(max_retries - 1) :
                 /\ i + k <= Len(calls)
                 /\ calls[i + k].call = "does_workspace_exists_by_name")
                => (i + max_retries <= Len(calls)
                      => calls[i + max_retries].call # "does_workspace_exists_by_name")
          /\ calls[i] = Call("does_workspace_exists_by_name", "found")
                => /\ workspace_id = TheWorkspace \/ o_pc \in {"handler", "raised"}
                   /\ \A j \in (i + 1)..Len(calls) :
                         calls[j].call # "does_workspace_exists_by_name"
    /\ (calls # <<>> /\ calls[Len(calls)].call = "does_workspace_exists_by_name"
           /\ calls[Len(calls)].outcome # "found")
          => /\ o_pc = "lookup" /\ o_error = "" /\ pending = ""
             /\ workspace_id = None

\* Three lookups failed although the workspace exists; the check returned
\* nothing and the run went on.
C24_Witness ==
    /\ Len(calls) > max_retries
    /\ \A i \in 1..max_retries :
          calls[i] = Call("does_workspace_exists_by_name", "error")
    /\ calls[max_retries + 1].call = "list_all_workspaces"
    /\ ws_exists

\* C25: when every direct lookup failed and the workspace exists, the
\* listing scan resolves it: the run issues no creation call for a
\* workspace that exists.
C25_ListingScanResolves ==
    \A i \in 1..Len(calls) :
       calls[i].call = "create_workspace" => calls[i].outcome # "409"

\* The environment items of the listing passed to delete_old_items.
ListedEnvironments ==
    {td_items[i].id : i \in {j \in 1..Len(td_items) : td_items[j].type = "Environment"}}

\* C29: once the first loop of delete_old_items is through, every
\* Environment item of the fetched listing has been deleted, whatever the
\* repository holds, and each of these deletes precedes every pipeline
\* delete (pipelines are created only after delete_old_items returned).
C29_EnvironmentsDeletedFirst ==
    /\ td_pc \in {"pipelines", "done"}
          => \A id \in ListedEnvironments :
                id \in Range(td_deleted) /\ id \notin td_remote
    /\ \A i, j \in 1..Len(td_deleted) :
          (td_deleted[j] \in ListedEnvironments
             /\ td_deleted[i] \notin ListedEnvironments) => j < i

\* The environment was listed after two pipelines and deleted before them.
C29_Witness ==
    /\ td_pc = "done" /\ Len(td_deleted) = 3
    /\ td_deleted[1] \in ListedEnvironments
    /\ td_items[Len(td_items)].type = "Environment"
    /\ td_deleted[2] \notin ListedEnvironments

\* Number of positions of the order that hold pipeline p.
Occurrences(order, p) == Cardinality({i \in 1..Len(order) : order[i] = p})

\* C30: in Repository mode with an acyclic graph the returned order holds
\* every pipeline of the catalog exactly once, a pipeline without edges and
\* a pipeline referenced twice by the same definition included.
C30_OrderIsPermutation ==
    (sort_pc = "done" /\ lookup_type = "Repository"
        /\ ~HasCycle(pipeline_dict, lookup_type))
    => /\ sort_result.ok
       /\ Len(sort_result.order) = Len(pipeline_dict)
       /\ \A i \in 1..Len(pipeline_dict) :
             Occurrences(sort_result.order, pipeline_dict[i].name) = 1

\* Pipeline 1 invokes pipeline 2 twice, pipeline 3 has no edge at all.
C30_Witness ==
    /\ sort_pc = "done" /\ lookup_type = "Repository"
    /\ pipeline_dict = <<[name |-> 1, refs |-> <<LogicalId(2), LogicalId(2)>>],
                         [name |-> 2, refs |-> <<>>],
                         [name |-> 3, refs |-> <<>>]>>
    /\ sort_result.ok /\ Len(sort_result.order) = 3

\* ------------------------------------------------------------ polling loops
\* spark_utilities.py: defaults of poll_environment_publish_status, the
\* interval of the first ten minutes and the ten minutes, in seconds.
DefaultPollingInterval == 60
DefaultMaximumDuration == 1200
EarlyInterval == 300
EarlyThreshold == 600

\* Values the two parameters are called with.
PollingIntervals == {DefaultPollingInterval, 2 * DefaultPollingInterval,
                     EarlyInterval, EarlyThreshold}
MaximumDurations == {EarlyThreshold, DefaultMaximumDuration}

SleepIntervalSwapped(elapsed, interval) ==
    IF elapsed < EarlyThreshold THEN interval ELSE EarlyInterval

\* spark_utilities.py lines 105-109
SleepInterval(elapsed, interval) ==
    IF elapsed < EarlyThreshold THEN EarlyInterval ELSE interval

PollInit ==
    /\ SortIdle /\ RewriteIdle /\ DeployIdle /\ TeardownIdle /\ OrchIdle
    /\ ArtifactsIdle /\ SecurityIdle /\ BatchIdle /\ MoreIdle
    /\ pl_pc = "polling"
    /\ pl_fn \in {"handle_async_creation", "poll_environment_publish_status"}
    /\ IF pl_fn = "poll_environment_publish_status"
       THEN /\ polling_interval \in PollingIntervals
            /\ maximum_duration \in MaximumDurations
       ELSE polling_interval = 0 /\ maximum_duration = 0
    /\ elapsed_time = 0 /\ pl_early = 0 /\ pl_late = 0 /\ pl_tick = 0
    /\ pl_result = ""

PollFrame == UNCHANGED <<pl_fn, polling_interval, maximum_duration,
                         sortVars, rwVars, dpVars, tdVars, oVars, daVars,
                         sgVars, btVars, moreVars>>

\* spark_utilities.py lines 91-112: one iteration of the while loop.
PollEnvironment ==
    /\ pl_pc = "polling" /\ pl_fn = "poll_environment_publish_status"
    /\ elapsed_time < maximum_duration
    /\ \E current_state \in {"Running", "Success", "error"} :
          CASE current_state = "error" ->
                 /\ pl_pc' = "raised" /\ pl_result' = "TypeError"
                 /\ UNCHANGED <<elapsed_time, pl_early, pl_late>>
            [] current_state = "Success" ->
                 /\ pl_pc' = "returned" /\ pl_result' = current_state
                 /\ UNCHANGED <<elapsed_time, pl_early, pl_late>>
            [] OTHER ->
                 LET sleep_interval == SleepInterval(elapsed_time, polling_interval)
                 IN  /\ elapsed_time' = elapsed_time + sleep_interval
                     /\ pl_early' = IF elapsed_time < EarlyThreshold
                                    THEN sleep_interval ELSE pl_early
                     /\ pl_late' = IF elapsed_time < EarlyThreshold
                                   THEN pl_late ELSE sleep_interval
                     /\ UNCHANGED <<pl_pc, pl_result>>
    /\ UNCHANGED pl_tick
    /\ PollFrame

MaximumExceeded == "Maximum polling duration exceeded without status change."

\* spark_utilities.py lines 90 and 114: the loop condition fails.
PollEnvironmentGivesUp ==
    /\ pl_pc = "polling" /\ pl_fn = "poll_environment_publish_status"
    /\ ~(elapsed_time < maximum_duration)
    /\ pl_pc' = "raised" /\ pl_result' = MaximumExceeded
    /\ UNCHANGED <<elapsed_time, pl_early, pl_late, pl_tick>>
    /\ PollFrame

\* workspace_item_utilities.py lines 636-648: one iteration of `while True`:
\* sleep, GET the operation; any status but succeeded, failed or cancelled
\* goes round again.
PollOperation ==
    /\ pl_pc = "polling" /\ pl_fn = "handle_async_creation"
    /\ \E operation_status \in {"Running", "Succeeded", "Failed", "http_error"} :
          CASE operation_status = "Succeeded" ->
                 \E result_ok \in BOOLEAN :
                    /\ pl_pc' = IF result_ok THEN "returned" ELSE "raised"
                    /\ pl_result' = IF result_ok THEN "result"
                                    ELSE "Unable to retrieve operation result"
            [] operation_status = "Failed" ->
                 /\ pl_pc' = "raised" /\ pl_result' = "creation failed"
            [] operation_status = "http_error" ->
                 /\ pl_pc' = "raised"
                 /\ pl_result' = "Unable to check operation status"
            [] OTHER -> UNCHANGED <<pl_pc, pl_result>>
    /\ pl_tick' = 1 - pl_tick
    /\ UNCHANGED <<elapsed_time, pl_early, pl_late>>
    /\ PollFrame

PollNext ==
    \/ PollEnvironment
    \/ PollEnvironmentGivesUp
    \/ PollOperation
\* Both loops run on their own thread of control and always take their next
\* iteration.
SpecPoll == PollInit /\ [][PollNext]_vars /\ WF_vars(PollNext)

PollEnded == pl_pc \in {"returned", "raised"}

\* C26: polling of an asynchronous item-creation operation always ends, by
\* a result or by an error, also when the operation never reaches a
\* terminal status.
C26_PollingTerminates ==
    [](pl_fn = "handle_async_creation" => <>PollEnded)

\* C27: with the defaults, the interval slept below the threshold is
\* shorter than the interval slept from the threshold on, and the loop gives
\* up only when the elapsed time has reached the maximum duration.
C27_EscalatingCadence ==
    /\ (polling_interval = DefaultPollingInterval /\ pl_early # 0 /\ pl_late # 0)
          => pl_early < pl_late
    /\ pl_result = MaximumExceeded => elapsed_time >= maximum_duration

\* C27 as the code has it: below the threshold the loop sleeps the fixed
\* five minutes, from the threshold on the caller's polling_interval (with
\* the default, the shorter of the two), and it gives up exactly when the
\* elapsed time has reached the maximum duration, never polling after that.
C27_CadenceAsCoded ==
    /\ pl_early \in {0, EarlyInterval}
    /\ pl_late \in {0, polling_interval}
    /\ (polling_interval = DefaultPollingInterval /\ pl_early # 0 /\ pl_late # 0)
          => pl_late < pl_early
    /\ pl_result = MaximumExceeded <=>
          /\ pl_fn = "poll_environment_publish_status"
          /\ pl_pc = "raised" /\ elapsed_time >= maximum_duration
    /\ pl_result = "Success" => elapsed_time < maximum_duration

C27_Witness ==
    /\ pl_fn = "poll_environment_publish_status"
    /\ polling_interval = DefaultPollingInterval
    /\ maximum_duration = DefaultMaximumDuration
    /\ pl_early # 0 /\ pl_late # 0
    /\ pl_result = MaximumExceeded

\* -------------------------------------------------------------- batch loops
\* workspace_item_utilities.py: `if i % 30 == 0: time.sleep(55)`.
PausePeriod == 30

\* The loops that count their iterations and pause, and the one that does not.
PausingLoops == {"add_old_suffix_to_items", "delete_old_items.environments",
                 "delete_old_items.pipelines", "clean_deleted_item",
                 "deploy_notebooks"}
BatchLoops == PausingLoops \cup {"deploy_pipelines"}

\* Loops whose iteration issues a request only for some items (a type
\* filter, a name the workspace lacks).
FilteringLoops == {"add_old_suffix_to_items", "delete_old_items.environments",
                   "delete_old_items.pipelines"}

\* Lengths of the item list, around the pause period.
ItemCounts == {PausePeriod - 1, PausePeriod, PausePeriod + 1}

PauseDue(loop, i) == loop \in PausingLoops /\ i % PausePeriod = 0

BatchInit ==
    /\ SortIdle /\ RewriteIdle /\ DeployIdle /\ TeardownIdle /\ OrchIdle
    /\ ArtifactsIdle /\ SecurityIdle /\ PollIdle /\ MoreIdle
    /\ bt_pc = "loop"
    /\ bt_loop \in BatchLoops
    /\ bt_n \in ItemCounts
    /\ bt_i = 0 /\ bt_paused = FALSE /\ bt_since = 0

BatchFrame == UNCHANGED <<bt_loop, bt_n, sortVars, rwVars, dpVars, tdVars,
                          oVars, daVars, sgVars, plVars, moreVars>>

\* `if i % 30 == 0: time.sleep(55)` followed by `i += 1`; deploy_pipelines
\* has neither line.
CoolDownCheck ==
    /\ bt_pc = "loop" /\ bt_i < bt_n /\ ~bt_paused
    /\ bt_loop \in PausingLoops
    /\ bt_since' = IF PauseDue(bt_loop, bt_i) THEN 0 ELSE bt_since
    /\ bt_paused' = TRUE
    /\ UNCHANGED <<bt_pc, bt_i>>
    /\ BatchFrame

\* The rest of the iteration: the item's request, if the item gets one.
ItemOperation ==
    /\ bt_pc = "loop" /\ bt_i < bt_n
    /\ bt_paused \/ bt_loop \notin PausingLoops
    /\ \E outcome \in {"ok", "error"} \cup
                       (IF bt_loop \in FilteringLoops THEN {"skip"} ELSE {}) :
          /\ bt_since' = IF outcome = "skip" THEN bt_since ELSE bt_since + 1
          /\ bt_pc' = IF outcome = "error" THEN "raised" ELSE "loop"
    /\ bt_i' = bt_i + 1
    /\ bt_paused' = FALSE
    /\ BatchFrame

LoopEnds ==
    /\ bt_pc = "loop" /\ bt_i = bt_n
    /\ bt_pc' = "done"
    /\ UNCHANGED <<bt_i, bt_paused, bt_since>>
    /\ BatchFrame

BatchNext ==
    \/ CoolDownCheck
    \/ ItemOperation
    \/ LoopEnds
SpecBatch == BatchInit /\ [][BatchNext]_vars

\* C28: in every batch loop over items, no more than 30 item operations are
\* issued between two consecutive pauses.
C28_PauseEveryThirty == bt_since <= PausePeriod

\* ---------------------------------------- SpecDeploy: unresolved references
HasUnresolved(dict) ==
    \E i \in 1..Len(dict) : UnresolvedId \in Range(dict[i].refs)

\* The dictionary with every reference that no catalog entry carries removed.
WithoutUnresolved(dict) ==
    [i \in 1..Len(dict) |->
        [name |-> dict[i].name,
         refs |-> SelectSeq(dict[i].refs, LAMBDA r : r # UnresolvedId)]]

\* C31: a pipeline-invocation reference whose id resolves to no catalog
\* entry adds no edge and raises no error: deploy_pipelines sorts the
\* repository as it sorts the same pipelines with that reference absent,
\* fails only as it would fail then (a cycle, a refused create), and on
\* return has posted every pipeline, the referring one included.
C31_UnresolvedDropped ==
    (dp_pc \in {"loop", "done", "failed"} /\ HasUnresolved(dp_repo))
    => LET r == SortDatapipelines(WithoutUnresolved(dp_repo), "Repository")
       IN  /\ r.ok => /\ dp_order = r.order
                       /\ dp_error \in {"", "Failed to create pipeline"}
           /\ ~r.ok => dp_error = r.error
           /\ dp_pc = "done" => /\ dp_posted = r.order
                                 /\ Range(dp_posted) = Range(DictNames(dp_repo))

\* Pipeline 2 invokes an unknown pipeline and pipeline 1: the run has
\* returned after posting pipeline 1 and then pipeline 2.
C31_Witness ==
    /\ dp_pc = "done"
    /\ RefsOf(dp_repo, 2) = <<UnresolvedId, LogicalId(1)>>
    /\ Precedes(dp_posted, 1, 2)
    /\ {1, 2} \subseteq dp_target

\* -------------------------------------------- SpecOrch: compensating delete
\* C35: the compensating delete is issued only for a workspace this run
\* created; a workspace that existed before the run is never deleted, also
\* when its id was obtained by resolving a creation name conflict.
C35_PreexistingNeverDeleted ==
    Issued("delete_workspace") => Call("create_workspace", "201") \in Range(calls)

\* ------------------------------------- SpecTeardown: kinds of deleted items
\* C36: every DataPipeline of the target whose displayName is in the publish
\* order is deleted by a teardown that returns, also when an item of another
\* kind in the workspace has the same displayName.
C36_NamedPipelinesDeleted ==
    td_pc = "done"
    => \A n \in ListedPipelines(td_items) \cap Range(td_order) :
          Guid(n) \in Range(td_deleted)

\* The listed items delete_old_items has deleted.
DeletedItems ==
    {td_items[j] : j \in {k \in 1..Len(td_items) : td_items[k].id \in Range(td_deleted)}}

ConflictingRoles(entries) ==
    \E i, j \in 1..Len(entries) :
       /\ entries[i].identifier = entries[j].identifier
       /\ ServiceRole(entries[i].access) # ServiceRole(entries[j].access)

\* C39: when the declared list names an identifier twice with different
\* roles, add_security_group_to_workspace raises before any remote call:
\* no listing, no add, update or remove request, membership unchanged.
C39_ConflictRaisesBeforeCalls ==
    ConflictingRoles(sg_declared)
    => /\ sg_pc \in {"list", "failed"}
       /\ sg_listed = 0 /\ sg_requests = <<>> /\ sg_todo = <<>>
       /\ sg_members = sg_initial

\* Identifier 1 is declared Admin and Member, it is a Member of the
\* workspace and identifier 3 is a member nobody declared: the call raised.
C39_Witness ==
    /\ sg_pc = "failed"
    /\ sg_declared = << [identifier |-> 1, access |-> "Admin"],
                        [identifier |-> 1, access |-> "Member"] >>
    /\ sg_initial[1] = "Member" /\ sg_initial[3] = "Admin"
    /\ sg_members = sg_initial /\ sg_listed = 0

\* ------------------------------------------------- update_notebook_content
\* The lakehouse metadata of a notebook file: the four META lines, each
\* absent, null or carrying a quoted value.
NoLine == "absent"
Null == "null"

DefaultLakehouse == "Bronze"
LakehouseNames == {DefaultLakehouse, "Bronze_Staging", "Silver"}
\* A lakehouse name no dictionary holds.
RemovedLakehouse == "Gone"

LakehouseId(name) == <<"lakehouse", name>>
\* str(lakehouse_dict.get(name)) in the f-strings of lines 250-259
LakehouseIdText(dict, name) == IF name \in dict THEN LakehouseId(name) ELSE None

IngestionLayer == "Data_Ingestion"
NonSecurityLayer == "Data_Non_Security"
TargetFolders == {IngestionLayer, NonSecurityLayer, "Operations"}

\* line 1504: "Bronze" in k
ContainsBronze(k) == k \in {"Bronze", "Bronze_Staging"}

\* deploy_notebooks lines 1503-1525: the dictionary update_notebook_content
\* gets for the folder.
LayerLakehouses(folder, dict) ==
    CASE folder = IngestionLayer -> {k \in dict : ContainsBronze(k)}
      [] folder = NonSecurityLayer -> {DefaultLakehouse}
      [] OTHER -> dict

\* lines 224-230: the quoted value of default_lakehouse_name, "" without one.
CurrentLakehouseName(content) ==
    IF content.default_lakehouse_name \in {NoLine, Null} THEN ""
    ELSE content.default_lakehouse_name

\* lines 233-237
ForcesDefault(current, dict, folder) ==
    /\ current = "" \/ current \notin dict
    /\ folder \in {IngestionLayer, NonSecurityLayer}

\* re.sub on a META line: a line that is there takes the new value.
Sub(line, value) == IF line = NoLine THEN NoLine ELSE value

\* lines 220-262
UpdateNotebookContent(content, dict, ws_id, folder) ==
    LET current == CurrentLakehouseName(content)
        lakehouse_name == IF ForcesDefault(current, dict, folder)
                          THEN DefaultLakehouse ELSE current
        lakehouse_id == LakehouseIdText(dict, lakehouse_name)
        \* lines 246-253: the default_lakehouse line is inserted before the
        \* default_lakehouse_name line when the content has none
        injected == IF content.default_lakehouse = NoLine
                       /\ content.default_lakehouse_name # NoLine
                    THEN Null ELSE content.default_lakehouse
    IN  IF lakehouse_name = "" THEN content
        ELSE [default_lakehouse |-> Sub(injected, lakehouse_id),
              default_lakehouse_name |-> Sub(content.default_lakehouse_name,
                                             lakehouse_name),
              default_lakehouse_workspace_id |->
                  Sub(content.default_lakehouse_workspace_id, ws_id),
              known_lakehouses |-> Sub(content.known_lakehouses, <<lakehouse_id>>)]

\* Notebook files: attached to some lakehouse of an earlier workspace, to
\* none (null or ""), or without the META lines.
NotebookContents ==
    {[default_lakehouse |-> dl, default_lakehouse_name |-> n,
      default_lakehouse_workspace_id |-> rest, known_lakehouses |-> rest] :
        dl \in {NoLine, Null, "old-lakehouse-id"},
        n \in {NoLine, Null, ""} \cup LakehouseNames \cup {RemovedLakehouse},
        rest \in {NoLine, "old-value"}}

NotebookInit ==
    /\ SortIdle /\ RewriteIdle /\ DeployIdle /\ TeardownIdle /\ OrchIdle
    /\ ArtifactsIdle /\ SecurityIdle /\ PollIdle /\ BatchIdle /\ ScanIdle
    /\ nb_pc = "read"
    /\ target_folder \in TargetFolders
    /\ lakehouse_dict \in SUBSET LakehouseNames
    /\ notebook_content \in NotebookContents
    /\ new_notebook_content = <<>>

\* deploy_notebooks lines 1496-1528: one notebook of the loop.
UpdateNotebook ==
    /\ nb_pc = "read"
    /\ new_notebook_content' =
          UpdateNotebookContent(notebook_content,
                                LayerLakehouses(target_folder, lakehouse_dict),
                                WorkspaceId, target_folder)
    /\ nb_pc' = "done"
    /\ UNCHANGED <<target_folder, lakehouse_dict, notebook_content, scVars,
                   sortVars, rwVars, dpVars, tdVars, oVars, daVars,
                   sgVars, plVars, btVars>>

NotebookNext == UpdateNotebook
SpecNotebook == NotebookInit /\ [][NotebookNext]_vars

\* C32: for a notebook of the ingestion or the non-security layer the
\* updated content always names the default lakehouse, whatever the
\* notebook was attached to before.
C32_DefaultLakehouseForced ==
    (nb_pc = "done" /\ target_folder \in {IngestionLayer, NonSecurityLayer}
        /\ notebook_content.default_lakehouse_name # NoLine)
    => new_notebook_content.default_lakehouse_name = DefaultLakehouse

\* ------------------------------------ filter_pipelines, repository_items_list
\* Number of item directories under a layer folder.
MaxItems == 2

\* The folder the caller asks for and the directory names that can stand
\* beside it.
RequestedFolder == "Operations"
DirectoryNames == {"Operations", "operations", "OPERATIONS", "Other"}

\* Mutation of LowerFolder: names are compared as spelled.
LowerFolderExact(name) == name

\* str.lower()
LowerFolder(name) ==
    IF name \in {"Operations", "OPERATIONS"} THEN "operations" ELSE name

\* An item directory: whether it holds the content file, and its .platform
\* file: none, complete, or without the type or the displayName field.
PlatformFiles == {"none", "ok", "no_type", "no_displayName"}
ItemDirectories ==
    {d \in [content : BOOLEAN, platform : PlatformFiles] :
        d.content \/ d.platform # "none"}

ContentPath(folder, i) == <<folder, i, "pipeline-content.json">>
PlatformPath(folder, i) == <<folder, i, ".platform">>

\* lines 464-471: os.walk appends each file it meets to its own list.
ContentFiles(folder, items) ==
    LET found == SelectSeq([i \in 1..Len(items) |-> i], LAMBDA i : items[i].content)
    IN  [k \in 1..Len(found) |-> ContentPath(folder, found[k])]
PlatformFilesFound(folder, items) ==
    LET found == SelectSeq([i \in 1..Len(items) |-> i],
                           LAMBDA i : items[i].platform # "none")
    IN  [k \in 1..Len(found) |-> PlatformPath(folder, found[k])]

ScanInit ==
    /\ SortIdle /\ RewriteIdle /\ DeployIdle /\ TeardownIdle /\ OrchIdle
    /\ ArtifactsIdle /\ SecurityIdle /\ PollIdle /\ BatchIdle /\ NotebookIdle
    /\ sc_pc = "start"
    /\ sc_disk \in SUBSET DirectoryNames
    /\ sc_items \in UNION {[1..n -> ItemDirectories] : n \in 0..MaxItems}
    /\ sc_folder = NoFolder
    /\ pipelines = <<>> /\ platforms = <<>> /\ repository_items = <<>>
    /\ sc_error = ""

ScanFrame == UNCHANGED <<sc_disk, sc_items, nbVars, sortVars, rwVars, dpVars,
                         tdVars, oVars, daVars, sgVars, plVars, btVars>>

\* filter_pipelines lines 442-477: the folder under its exact name, else the
\* first directory os.listdir gives whose lowered name is the lowered
\* request, else nothing.
FilterPipelines ==
    /\ sc_pc = "start"
    /\ LET alternative_paths ==
              {d \in sc_disk : LowerFolder(d) = LowerFolder(RequestedFolder)}
       IN  \E folder \in (IF RequestedFolder \in sc_disk THEN {RequestedFolder}
                           ELSE IF alternative_paths # {} THEN alternative_paths
                           ELSE {NoFolder}) :
              /\ sc_folder' = folder
              /\ pipelines' = IF folder = NoFolder THEN <<>>
                               ELSE ContentFiles(folder, sc_items)
              /\ platforms' = IF folder = NoFolder THEN <<>>
                               ELSE PlatformFilesFound(folder, sc_items)
    /\ sc_pc' = "filtered"
    /\ UNCHANGED <<repository_items, sc_error>>
    /\ ScanFrame

ListError == "An error occurred while getting the list of items"
ValidationError == "displayName & type are required"

\* json.load of a .platform file: the fields of its metadata.
Metadata(path) == sc_items[path[2]].platform

Min(a, b) == IF a < b THEN a ELSE b

\* repository_items_list lines 723-763 and 843-844: the deployed items are
\* listed, then zip(pipelines, platforms) is walked; the first descriptor
\* without type or displayName raises.
RepositoryItemsList ==
    /\ sc_pc = "filtered"
    /\ \E listed \in BOOLEAN :
          LET n == Min(Len(pipelines), Len(platforms))
              bad == {k \in 1..n : Metadata(platforms[k]) # "ok"}
          IN  IF ~listed
              THEN /\ sc_pc' = "failed" /\ sc_error' = ListError
                   /\ UNCHANGED repository_items
              ELSE IF bad # {}
              THEN /\ sc_pc' = "failed" /\ sc_error' = ValidationError
                   /\ UNCHANGED repository_items
              ELSE /\ repository_items' =
                        [k \in 1..n |->
                            [name |-> platforms[k][2], path |-> pipelines[k],
                             logical_id |-> LogicalId(platforms[k][2])]]
                   /\ sc_pc' = "done" /\ sc_error' = sc_error
    /\ UNCHANGED <<sc_folder, pipelines, platforms>>
    /\ ScanFrame

ScanNext ==
    \/ FilterPipelines
    \/ RepositoryItemsList
SpecScan == ScanInit /\ [][ScanNext]_vars

\* Directories whose name is the requested one up to the case of letters.
CaseVariants == {"Operations", "operations", "OPERATIONS"}

\* C33: when the requested folder is not there under its exact name but a
\* sibling directory matches it case-insensitively, filter_pipelines walks
\* such a directory and returns its files; when no directory matches it
\* returns empty lists and raises nothing.
C33_CaseInsensitiveFallback ==
    sc_pc # "start"
    => /\ (RequestedFolder \notin sc_disk /\ sc_disk \cap CaseVariants # {})
            => /\ sc_folder \in sc_disk \cap CaseVariants
               /\ \A i \in 1..Len(sc_items) :
                     /\ sc_items[i].content
                          <=> ContentPath(sc_folder, i) \in Range(pipelines)
                     /\ sc_items[i].platform # "none"
                          <=> PlatformPath(sc_folder, i) \in Range(platforms)
       /\ sc_disk \cap CaseVariants = {}
            => /\ sc_folder = NoFolder
               /\ pipelines = <<>> /\ platforms = <<>>
               /\ sc_error \in {"", ListError}
               /\ sc_pc = "done" => repository_items = <<>>

\* "Operations" was asked for, only "operations" is on disk: its two
\* pipelines were found and catalogued.
C33_Witness ==
    /\ sc_pc = "done" /\ sc_disk = {"operations", "Other"}
    /\ sc_folder = "operations"
    /\ pipelines = <<ContentPath("operations", 1), ContentPath("operations", 2)>>
    /\ Len(repository_items) = 2

\* C34: when an item of the scanned folder has a descriptor without the
\* type or the displayName field, the scan fails with the validation error
\* and returns no catalog.
C34_MissingFieldFails ==
    (sc_pc \in {"done", "failed"} /\ sc_folder # NoFolder /\ sc_error # ListError
        /\ \E i \in 1..Len(sc_items) :
              sc_items[i].content /\ sc_items[i].platform \in {"no_type", "no_displayName"})
    => /\ sc_pc = "failed" /\ sc_error = ValidationError
       /\ repository_items = <<>>

\* C38: every catalog entry pairs a content file with the descriptor of the
\* same item directory, also when some item directory holds only one of the
\* two files.
C38_PairsSameDirectory ==
    \A k \in 1..Len(repository_items) :
        repository_items[k].path[2] = repository_items[k].name

====
